---------------------------- MODULE Spec2Model ----------------------------
(***************************************************************************)
(* A model of the calculation, parsing and persistence core of the         *)
(* electricity price comparison tool (utils/calculations.ts, kept here as  *)
(* src/unnamed/part_004, and i18n/translations.ts).                        *)
(*                                                                         *)
(* Numbers.  A JavaScript number is modelled as a record [k, v]: k = "fin" *)
(* with v the value in thousandths (prices) or in whole units (kWh         *)
(* quantities), k = "nan", or k = "inf" with v the sign.  k = "null" is    *)
(* the JSON null that takes the place of a number after a decode.  The     *)
(* arithmetic on these records follows IEEE-754 for the special values;    *)
(* binary representation error of finite values is not modelled, finite    *)
(* values are exact decimals.                                              *)
(*                                                                         *)
(* Strings are sequences of one-character strings.                         *)
(***************************************************************************)
EXTENDS Integers, Sequences, FiniteSets, TLC

VARIABLES
  vendors,   \* the caller's plan sequence (Vendor[]), argument of the calls
  kwh,       \* the quantity argument of the last pricing call
  op,        \* the last operation that ran
  ret,       \* what the last operation returned
  raised,    \* the message of the error the last operation threw, or "none"
  store,     \* localStorage: for each key, whether it is set and its string
  hasWindow, \* typeof window !== 'undefined'
  fault,     \* the store raised when the last operation called it
  warned,    \* the last operation logged a console.warn
  saved,     \* history: the last plan sequence a save wrote to the store
  csvText,   \* the text argument of parseCSVData
  doc,       \* history: what csvText was written from, line by line
  transKey,  \* the key argument of the last getTranslation call
  lastSet,   \* history: the last setLanguage call, its argument and outcome
  levels     \* the array the constant CONSUMPTION_LEVELS holds

storeVars == <<store, hasWindow, fault, warned, saved>>

csvVars == <<csvText, doc>>

i18nVars == <<transKey, lastSet>>

vars ==
  <<vendors, kwh, op, ret, raised, store, hasWindow, fault, warned, saved,
    csvText, doc, transKey, lastSet, levels>>

---------------------------------------------------------------------------
(* Bounds of the model *)

\* largest |fixedPrice| drawn for the pricing specification, in thousandths
MaxMilli == 30
\* largest |kwhPrice| drawn for the pricing specification, in thousandths
MaxRate == 2
\* largest |kwh| drawn for the pricing specification, in whole kWh
MaxQty == 3
\* longest plan sequence drawn for the ranking specification
MaxVendors == 7
\* longest plan sequence drawn for the ladder specification
MaxLevelVendors == 3
\* longest plan sequence saved in the persistence specification
MaxStored == 2
\* most lines after the header in the texts of the parsing specification
MaxRows == 3

---------------------------------------------------------------------------
(* The number type *)

\* thousandths per unit: the resolution at which finite prices are held
Unit == 1000

Fin(n) == [k |-> "fin", v |-> n]
NaN == [k |-> "nan", v |-> 0]
PosInf == [k |-> "inf", v |-> 1]
NegInf == [k |-> "inf", v |-> -1]

Sign(n) == IF n > 0 THEN 1 ELSE IF n < 0 THEN -1 ELSE 0

\* a + b
Add(a, b) ==
  IF a.k = "nan" \/ b.k = "nan" THEN NaN
  ELSE IF a.k = "inf" /\ b.k = "inf" THEN (IF a.v = b.v THEN a ELSE NaN)
  ELSE IF a.k = "inf" THEN a
  ELSE IF b.k = "inf" THEN b
  ELSE Fin(a.v + b.v)

\* a - b
Sub(a, b) ==
  Add(a, IF b.k = "nan" THEN NaN ELSE [k |-> b.k, v |-> 0 - b.v])

\* rate * quantity: a price per kWh (thousandths) times whole kWh
Mul(a, b) ==
  IF a.k = "nan" \/ b.k = "nan" THEN NaN
  ELSE IF a.k = "inf" \/ b.k = "inf"
       THEN (IF Sign(a.v) * Sign(b.v) = 0 THEN NaN
             ELSE [k |-> "inf", v |-> Sign(a.v) * Sign(b.v)])
  ELSE Fin(a.v * b.v)

\* a < b and a <= b as the language compares numbers: false when either is NaN
Lt(a, b) ==
  /\ a.k # "nan" /\ b.k # "nan"
  /\ LET d == Sub(a, b) IN d.k # "nan" /\ d.v < 0

Leq(a, b) ==
  /\ a.k # "nan" /\ b.k # "nan"
  /\ LET d == Sub(a, b) IN d.k = "nan" \/ d.v <= 0

\* Math.round of the ratio n / d (d > 0): floor(n/d + 1/2), ties go up
MathRound(n, d) == (2 * n + d) \div (2 * d)

\* rounding of n / d (d > 0) to the nearest integer, ties away from zero
RoundHalfAway(n, d) ==
  IF n >= 0 THEN (2 * n + d) \div (2 * d) ELSE 0 - ((2 * (0 - n) + d) \div (2 * d))

\* x to 2 decimal places, ties away from zero
RoundHalfAway2(x) ==
  IF x.k = "fin" THEN Fin(RoundHalfAway(x.v * 100, Unit) * (Unit \div 100)) ELSE x

\* Math.round(x * 100) / 100 on a price held in thousandths
RoundTo2(x) ==
  IF x.k = "fin" THEN Fin(MathRound(x.v * 100, Unit) * (Unit \div 100)) ELSE x

---------------------------------------------------------------------------
(* localStorage *)

\* a key that is not set
Absent == [has |-> FALSE, text |-> <<>>]
\* a key set to the string text
Held(text) == [has |-> TRUE, text |-> text]

EmptyStore == [customVendors |-> Absent, language |-> Absent]

NothingSaved == [has |-> FALSE, seq |-> <<>>]

\* the store as the pure functions leave it: they never touch it
StoreUnused ==
  /\ store = EmptyStore
  /\ hasWindow = TRUE
  /\ fault = FALSE
  /\ warned = FALSE
  /\ saved = NothingSaved

\* a document of no lines
NoDoc == [lead |-> <<>>, lines |-> <<>>, trail |-> <<>>]

\* no CSV text is involved
CsvUnused ==
  /\ csvText = <<>>
  /\ doc = NoDoc

\* setLanguage was not called yet
NeverSet == [has |-> FALSE, language |-> "", stored |-> FALSE]

\* no translation is involved
I18nUnused ==
  /\ transKey = ""
  /\ lastSet = NeverSet

---------------------------------------------------------------------------
(* The consumption ladder *)

\* a ladder that starts one step late
LevelsFrom200 ==
  <<200, 300, 400, 500, 600, 700, 800, 900, 1000, 1100, 1200, 1300, 1400, 1500, 1600>>

CONSUMPTION_LEVELS ==
  <<100, 200, 300, 400, 500, 600, 700, 800, 900, 1000, 1100, 1200, 1300, 1400, 1500>>

---------------------------------------------------------------------------
(* calculatePrice *)

\* a pricing that leaves the sum unrounded
calculatePriceUnrounded(vendor, q) ==
  [vendor |-> vendor.vendor,
   plan |-> vendor.plan,
   fixedPrice |-> vendor.fixedPrice,
   kwhPrice |-> vendor.kwhPrice,
   totalPrice |-> Add(vendor.fixedPrice, Mul(vendor.kwhPrice, q)),
   link |-> vendor.link]

\* a pricing that rounds the fixed price and the product each on its own
calculatePriceRoundingTerms(vendor, q) ==
  LET totalPrice == Add(RoundTo2(vendor.fixedPrice), RoundTo2(Mul(vendor.kwhPrice, q)))
  IN  [vendor |-> vendor.vendor,
       plan |-> vendor.plan,
       fixedPrice |-> vendor.fixedPrice,
       kwhPrice |-> vendor.kwhPrice,
       totalPrice |-> RoundTo2(totalPrice),
       link |-> vendor.link]

\* a pricing that gives 0 where the sum is no number
calculatePriceOrZero(vendor, q) ==
  LET totalPrice == Add(vendor.fixedPrice, Mul(vendor.kwhPrice, q))
  IN  [vendor |-> vendor.vendor,
       plan |-> vendor.plan,
       fixedPrice |-> vendor.fixedPrice,
       kwhPrice |-> vendor.kwhPrice,
       totalPrice |-> IF totalPrice.k = "nan" THEN Fin(0) ELSE RoundTo2(totalPrice),
       link |-> vendor.link]

calculatePrice(vendor, q) ==
  LET totalPrice == Add(vendor.fixedPrice, Mul(vendor.kwhPrice, q))
  IN  [vendor |-> vendor.vendor,
       plan |-> vendor.plan,
       fixedPrice |-> vendor.fixedPrice,
       kwhPrice |-> vendor.kwhPrice,
       totalPrice |-> RoundTo2(totalPrice),
       link |-> vendor.link]

Vendor(v, p, f, r, l) ==
  [vendor |-> v, plan |-> p, fixedPrice |-> f, kwhPrice |-> r, link |-> l]

---------------------------------------------------------------------------
(* The pricing specification: one plan, priced at any quantity *)

PriceFixed == {Fin(n) : n \in (0 - MaxMilli)..MaxMilli} \cup {NaN, PosInf, NegInf}
PriceRates == {Fin(n) : n \in (0 - MaxRate)..MaxRate} \cup {NaN, PosInf}
PriceQtys == {Fin(n) : n \in (0 - MaxQty)..MaxQty} \cup {NaN, PosInf}

InitPrice ==
  /\ vendors \in {<<Vendor(<<"A">>, <<"P">>, f, r, <<"u">>)>> :
                    f \in PriceFixed, r \in PriceRates}
  /\ kwh = Fin(0)
  /\ op = "init"
  /\ ret = <<>>
  /\ raised = "none"
  /\ levels = CONSUMPTION_LEVELS
  /\ StoreUnused
  /\ CsvUnused
  /\ I18nUnused

CalculatePrice(i, q) ==
  /\ op = "init"
  /\ kwh' = q
  /\ op' = "calculatePrice"
  /\ ret' = calculatePrice(vendors[i], q)
  /\ UNCHANGED <<vendors, raised, storeVars, csvVars, i18nVars, levels>>

NextPrice == \E i \in 1..Len(vendors), q \in PriceQtys : CalculatePrice(i, q)

SpecPrice == InitPrice /\ [][NextPrice]_vars

\* the unrounded sum fixedPrice + kwhPrice * kwh of plan i at the last quantity
ExactSum(i) == Add(vendors[i].fixedPrice, Mul(vendors[i].kwhPrice, kwh))

\* t is s rounded to a whole cent, a tie between two cents going to the upper
IsHalfUpCent(t, s) ==
  /\ t.k = "fin"
  /\ t.v % (Unit \div 100) = 0
  /\ 2 * (s.v - t.v) >= 0 - (Unit \div 100)
  /\ 2 * (s.v - t.v) < Unit \div 100

---------------------------------------------------------------------------
(* calculateAllPrices and calculateAllConsumptionLevels *)

\* the reversed comparator, b.totalPrice - a.totalPrice
CompareDescending(a, b) ==
  LET d == Sub(b.totalPrice, a.totalPrice)
  IN  IF d.k = "nan" THEN 0 ELSE Sign(d.v)

\* the comparator (a, b) => a.totalPrice - b.totalPrice, as the sort reads it:
\* its sign, a NaN difference counting as +0
Compare(a, b) ==
  LET d == Sub(a.totalPrice, b.totalPrice)
  IN  IF d.k = "nan" THEN 0 ELSE Sign(d.v)

(* Array.prototype.sort.  The language asks for a stable sort and leaves   *)
(* the order implementation-defined when the comparator is not consistent  *)
(* (here: a NaN total among different totals).  The sort below is the one  *)
(* of the V8 engine (Node.js, on which the test suite runs) for arrays of  *)
(* fewer than 64 elements: the leading run is found, reversed when it is   *)
(* strictly descending, and the other elements are put in by binary        *)
(* insertion.  With a consistent comparator every stable sort returns the  *)
(* same array.                                                             *)

Reverse(s) == [i \in 1..Len(s) |-> s[Len(s) + 1 - i]]

\* the leading run of s is strictly descending
RunDescends(s) == Len(s) >= 2 /\ Compare(s[2], s[1]) < 0

\* the length of the leading run of s, s[idx] being the next element to look at
RECURSIVE RunEnd(_, _)
RunEnd(s, idx) ==
  IF idx > Len(s) THEN Len(s)
  ELSE LET order == Compare(s[idx], s[idx - 1])
       IN  IF (RunDescends(s) /\ order >= 0) \/ (~RunDescends(s) /\ order < 0)
           THEN idx - 1
           ELSE RunEnd(s, idx + 1)

RunLength(s) == IF Len(s) < 2 THEN Len(s) ELSE RunEnd(s, 3)

\* s with its leading run made ascending
MakeRun(s) ==
  IF RunDescends(s)
  THEN Reverse(SubSeq(s, 1, RunLength(s))) \o SubSeq(s, RunLength(s) + 1, Len(s))
  ELSE s

\* a binary search that goes left on a tie
RECURSIVE BinarySearchUnstable(_, _, _, _)
BinarySearchUnstable(s, pivot, left, right) ==
  IF left >= right THEN left
  ELSE LET mid == left + ((right - left) \div 2)
       IN  IF Compare(pivot, s[mid + 1]) <= 0
           THEN BinarySearchUnstable(s, pivot, left, mid)
           ELSE BinarySearchUnstable(s, pivot, mid + 1, right)

\* the number of elements of the sorted s[1..right] that pivot goes after
RECURSIVE BinarySearch(_, _, _, _)
BinarySearch(s, pivot, left, right) ==
  IF left >= right THEN left
  ELSE LET mid == left + ((right - left) \div 2)
       IN  IF Compare(pivot, s[mid + 1]) < 0
           THEN BinarySearch(s, pivot, left, mid)
           ELSE BinarySearch(s, pivot, mid + 1, right)

\* s[1..start] is sorted: the elements after it are put in one by one
RECURSIVE BinaryInsertionSort(_, _)
BinaryInsertionSort(s, start) ==
  IF start >= Len(s) THEN s
  ELSE LET pivot == s[start + 1]
           pos == BinarySearch(s, pivot, 0, start)
       IN  BinaryInsertionSort(
             SubSeq(s, 1, pos) \o <<pivot>> \o SubSeq(s, pos + 1, start)
               \o SubSeq(s, start + 2, Len(s)),
             start + 1)

Sort(s) == IF Len(s) < 2 THEN s ELSE BinaryInsertionSort(MakeRun(s), RunLength(s))

\* vendors.map(vendor => calculatePrice(vendor, kwh))
MapPrices(vs, q) == [i \in 1..Len(vs) |-> calculatePrice(vs[i], q)]

calculateAllPrices(vs, q) == Sort(MapPrices(vs, q))

\* a ladder whose buckets all carry the ranking of the first level
LevelsAllRankedAtFirst(vs) ==
  [i \in 1..Len(CONSUMPTION_LEVELS) |->
     [kwh |-> Fin(CONSUMPTION_LEVELS[i]),
      calculations |-> calculateAllPrices(vs, Fin(CONSUMPTION_LEVELS[1]))]]

calculateAllConsumptionLevels(vs) ==
  [i \in 1..Len(CONSUMPTION_LEVELS) |->
     [kwh |-> Fin(CONSUMPTION_LEVELS[i]),
      calculations |-> calculateAllPrices(vs, Fin(CONSUMPTION_LEVELS[i]))]]

---------------------------------------------------------------------------
(* The ranking specifications: a plan sequence is drawn and ranked, at one *)
(* quantity (SpecRank) or over the consumption ladder (SpecLevels).  The   *)
(* functions are pure and read nothing an earlier call left behind, so a   *)
(* behaviour draws the arguments and makes one call.                       *)

\* A and B differ before rounding and tie after it at every quantity; C ties
\* with them at 100 kWh only; D has a NaN total at every quantity
RankPlans ==
  { Vendor(<<"A">>, <<"P">>, Fin(10000), Fin(150), <<"u">>),
    Vendor(<<"B">>, <<"P">>, Fin(10004), Fin(150), <<"u">>),
    Vendor(<<"C">>, <<"P">>, Fin(5000), Fin(200), <<"u">>),
    Vendor(<<"D">>, <<"P">>, NaN, Fin(150), <<"u">>) }

\* the ladder specification adds a plan whose total is infinite
LevelPlans ==
  RankPlans \cup {Vendor(<<"E">>, <<"P">>, Fin(10000), PosInf, <<"u">>)}

\* quantities of the ranking: two that order the plans differently, zero, a
\* negative one, NaN and infinity
RankQtys == {Fin(100), Fin(200), Fin(0), Fin(-100), NaN, PosInf}

SeqsUpTo(S, n) == UNION {[1..m -> S] : m \in 0..n}

InitRank ==
  /\ vendors \in SeqsUpTo(RankPlans, MaxVendors)
  /\ kwh = Fin(0)
  /\ op = "init"
  /\ ret = <<>>
  /\ raised = "none"
  /\ levels = CONSUMPTION_LEVELS
  /\ StoreUnused
  /\ CsvUnused
  /\ I18nUnused

CalculateAllPrices(q) ==
  /\ op = "init"
  /\ kwh' = q
  /\ op' = "calculateAllPrices"
  /\ ret' = calculateAllPrices(vendors, q)
  /\ UNCHANGED <<vendors, raised, storeVars, csvVars, i18nVars, levels>>

NextRank == \E q \in RankQtys : CalculateAllPrices(q)

SpecRank == InitRank /\ [][NextRank]_vars

InitLevels ==
  /\ vendors \in SeqsUpTo(LevelPlans, MaxLevelVendors)
  /\ kwh = Fin(0)
  /\ op = "init"
  /\ ret = <<>>
  /\ raised = "none"
  /\ levels = CONSUMPTION_LEVELS
  /\ StoreUnused
  /\ CsvUnused
  /\ I18nUnused

CalculateAllConsumptionLevels ==
  /\ op = "init"
  /\ op' = "calculateAllConsumptionLevels"
  /\ ret' = calculateAllConsumptionLevels(vendors)
  /\ UNCHANGED <<vendors, kwh, raised, storeVars, csvVars, i18nVars, levels>>

NextLevels == CalculateAllConsumptionLevels

SpecLevels == InitLevels /\ [][NextLevels]_vars

---------------------------------------------------------------------------
(* Properties of the ranking *)

\* the number of times x occurs in s
Count(s, x) == Cardinality({i \in 1..Len(s) : s[i] = x})

\* r holds the elements of m, each as many times as m does
IsPermutation(r, m) ==
  /\ Len(r) = Len(m)
  /\ \A i \in 1..Len(m) : Count(r, m[i]) = Count(m, m[i])

\* no priced plan of s has a NaN total
NoNaNTotal(s) == \A i \in 1..Len(s) : s[i].totalPrice.k # "nan"

\* no plan of s stands before one with a smaller total
NoInversion(s) ==
  \A i, j \in 1..Len(s) : i < j => ~Lt(s[j].totalPrice, s[i].totalPrice)

\* each total of s is <= the next one
NonDecreasing(s) ==
  \A i \in 1..(Len(s) - 1) : Leq(s[i].totalPrice, s[i + 1].totalPrice)

\* the plans of s whose total equals t, in their order in s
WithTotal(s, t) ==
  LET Same(x) == x.totalPrice = t IN SelectSeq(s, Same)

\* the plans of r with equal (non-NaN) totals stand in the order they have in m
TiesKeepOrder(r, m) ==
  \A i \in 1..Len(m) :
    m[i].totalPrice.k # "nan" =>
      WithTotal(r, m[i].totalPrice) = WithTotal(m, m[i].totalPrice)

\* C2 (as stated): for every plan sequence and every quantity the result of
\* calculateAllPrices is sorted non-decreasing by totalPrice and is a
\* permutation of the priced input plans.
C2_SortedPermutationAlways ==
  op = "calculateAllPrices" =>
    /\ NoInversion(ret)
    /\ IsPermutation(ret, MapPrices(vendors, kwh))

\* C2 (amended): the result of calculateAllPrices is always a permutation of
\* the priced input plans (same length, duplicates kept, empty in, empty
\* out), and it is sorted non-decreasing by totalPrice whenever no totalPrice
\* is NaN.
C2_PermutationAndSortedWithoutNaN ==
  op = "calculateAllPrices" =>
    /\ IsPermutation(ret, MapPrices(vendors, kwh))
    /\ Len(vendors) = 0 => ret = <<>>
    /\ NoNaNTotal(ret) => NonDecreasing(ret)

\* a sequence with a duplicate plan and no NaN total was ranked, and the sort
\* had to move a plan
C2_Witness ==
  /\ op = "calculateAllPrices"
  /\ NoNaNTotal(ret)
  /\ \E i, j \in 1..Len(vendors) : i < j /\ vendors[i] = vendors[j]
  /\ ret # MapPrices(vendors, kwh)

\* C3 (as stated): in the result of calculateAllPrices any two plans with
\* equal totalPrice stand in the relative order of the input sequence.
C3_TiesKeepInputOrderAlways ==
  op = "calculateAllPrices" => TiesKeepOrder(ret, MapPrices(vendors, kwh))

\* C3 (amended): whenever no totalPrice is NaN, any two plans with equal
\* totalPrice stand in the result of calculateAllPrices in the relative order
\* of the input sequence.
C3_TiesKeepInputOrderWithoutNaN ==
  op = "calculateAllPrices" /\ NoNaNTotal(ret) =>
    TiesKeepOrder(ret, MapPrices(vendors, kwh))

\* two different plans with equal totals were ranked, with no NaN total, and
\* the sort had to move a plan
C3_Witness ==
  /\ op = "calculateAllPrices"
  /\ NoNaNTotal(ret)
  /\ ret # MapPrices(vendors, kwh)
  /\ \E i, j \in 1..Len(ret) :
       /\ i < j
       /\ ret[i].totalPrice = ret[j].totalPrice
       /\ ret[i].vendor # ret[j].vendor

\* C4: calculateAllConsumptionLevels returns exactly 15 buckets whose kwh
\* values are 100, 200, ..., 1500 in that order, whatever the plan sequence.
C4_FifteenBucketsInLadderOrder ==
  op = "calculateAllConsumptionLevels" =>
    /\ Len(ret) = 15
    /\ \A i \in 1..15 : ret[i].kwh = Fin(100 * i)

\* the ladder was priced for a sequence of several plans, one of them NaN
C4_Witness ==
  /\ op = "calculateAllConsumptionLevels"
  /\ Len(vendors) >= 2
  /\ \E i \in 1..Len(vendors) : vendors[i].fixedPrice = NaN
  /\ Len(ret[15].calculations) = Len(vendors)

---------------------------------------------------------------------------
(* JSON.  A JSON text is held as its sequence of tokens; a string token    *)
(* holds the characters between its quotes, escapes included, and a number *)
(* token the value it denotes (a finite number is written so that it reads *)
(* back as the same number).                                               *)

Punct(c) == [t |-> c]
KeyTok(name) == [t |-> "key", name |-> name]
StrTok(chars) == [t |-> "str", s |-> chars]
NumTok(n) == [t |-> "num", n |-> n]
NullTok == [t |-> "null"]
\* characters that are no JSON token
BadTok == [t |-> "bad"]

\* the JSON null, as a value
Null == [k |-> "null", v |-> 0]

\* a JavaScript value with its type: the array with the elements v, or a
\* value of another type
JsArray(items) == [t |-> "array", v |-> items]

\* the characters of a string as JSON writes them between the quotes
RECURSIVE Escape(_)
Escape(chars) ==
  IF chars = <<>> THEN <<>>
  ELSE LET c == Head(chars)
       IN  (IF c = "\"" THEN <<"\\", "\"">>
            ELSE IF c = "\\" THEN <<"\\", "\\">>
            ELSE IF c = "\n" THEN <<"\\", "n">>
            ELSE <<c>>) \o Escape(Tail(chars))

\* the characters between the quotes form a string: no bare quote or line
\* break, and every backslash starts a known escape
RECURSIVE ValidChars(_)
ValidChars(chars) ==
  IF chars = <<>> THEN TRUE
  ELSE IF Head(chars) = "\\"
       THEN /\ Len(chars) >= 2
            /\ chars[2] \in {"\"", "\\", "n"}
            /\ ValidChars(Tail(Tail(chars)))
       ELSE Head(chars) \notin {"\"", "\n"} /\ ValidChars(Tail(chars))

\* the string that valid characters between quotes denote
RECURSIVE Unescape(_)
Unescape(chars) ==
  IF chars = <<>> THEN <<>>
  ELSE IF Head(chars) = "\\"
       THEN <<IF chars[2] = "n" THEN "\n" ELSE chars[2]>> \o Unescape(Tail(Tail(chars)))
       ELSE <<Head(chars)>> \o Unescape(Tail(chars))

\* a number as JSON.stringify writes it: NaN and the infinities become null
StringifyNumber(x) == IF x.k = "fin" THEN <<NumTok(x.v)>> ELSE <<NullTok>>

StringifyString(chars) == <<StrTok(Escape(chars))>>

\* one plan object, its properties in the order the interface lists them
StringifyVendor(v) ==
  <<Punct("{"), KeyTok("vendor"), Punct(":")>> \o StringifyString(v.vendor)
    \o <<Punct(","), KeyTok("plan"), Punct(":")>> \o StringifyString(v.plan)
    \o <<Punct(","), KeyTok("fixedPrice"), Punct(":")>> \o StringifyNumber(v.fixedPrice)
    \o <<Punct(","), KeyTok("kwhPrice"), Punct(":")>> \o StringifyNumber(v.kwhPrice)
    \o <<Punct(","), KeyTok("link"), Punct(":")>> \o StringifyString(v.link)
    \o <<Punct("}")>>

RECURSIVE StringifyElements(_)
StringifyElements(vs) ==
  IF vs = <<>> THEN <<>>
  ELSE IF Len(vs) = 1 THEN StringifyVendor(vs[1])
  ELSE StringifyVendor(Head(vs)) \o <<Punct(",")>> \o StringifyElements(Tail(vs))

\* JSON.stringify(vendors)
JSONstringify(vs) == <<Punct("[")>> \o StringifyElements(vs) \o <<Punct("]")>>

\* the outcome of reading a value off the front of a token sequence
ParseFail == [ok |-> FALSE, v |-> <<>>, rest |-> <<>>]
ParseOk(val, rest) == [ok |-> TRUE, v |-> val, rest |-> rest]

\* the object with the members ms, a sequence of <<name, value>>; of two
\* members with one name the later counts
ObjectOf(ms) ==
  [name \in {ms[i][1] : i \in 1..Len(ms)} |->
     ms[CHOOSE i \in 1..Len(ms) :
          /\ ms[i][1] = name
          /\ \A j \in (i + 1)..Len(ms) : ms[j][1] # name][2]]

RECURSIVE ParseValue(_), ParseElements(_, _), ParseMembers(_, _)

\* one JSON value off the front of ts
ParseValue(ts) ==
  IF ts = <<>> THEN ParseFail
  ELSE LET tok == Head(ts)
       IN  IF tok.t = "null" THEN ParseOk(Null, Tail(ts))
           ELSE IF tok.t = "num" THEN ParseOk(Fin(tok.n), Tail(ts))
           ELSE IF tok.t = "str"
                THEN (IF ValidChars(tok.s) THEN ParseOk(Unescape(tok.s), Tail(ts))
                      ELSE ParseFail)
           ELSE IF tok.t = "["
                THEN (IF Len(ts) >= 2 /\ ts[2].t = "]"
                      THEN ParseOk(<<>>, Tail(Tail(ts)))
                      ELSE ParseElements(Tail(ts), <<>>))
           ELSE IF tok.t = "{"
                THEN (IF Len(ts) >= 2 /\ ts[2].t = "}"
                      THEN ParseOk(ObjectOf(<<>>), Tail(Tail(ts)))
                      ELSE ParseMembers(Tail(ts), <<>>))
           ELSE ParseFail

\* the elements of an array after its [ or a comma, acc the ones read so far
ParseElements(ts, acc) ==
  LET r == ParseValue(ts)
  IN  IF ~r.ok \/ r.rest = <<>> THEN ParseFail
      ELSE IF Head(r.rest).t = "," THEN ParseElements(Tail(r.rest), Append(acc, r.v))
      ELSE IF Head(r.rest).t = "]" THEN ParseOk(Append(acc, r.v), Tail(r.rest))
      ELSE ParseFail

\* the members of an object after its { or a comma, acc the ones read so far
ParseMembers(ts, acc) ==
  IF Len(ts) < 3 \/ ts[1].t # "key" \/ ts[2].t # ":" THEN ParseFail
  ELSE LET r == ParseValue(SubSeq(ts, 3, Len(ts)))
           ms == Append(acc, <<ts[1].name, r.v>>)
       IN  IF ~r.ok \/ r.rest = <<>> THEN ParseFail
           ELSE IF Head(r.rest).t = "," THEN ParseMembers(Tail(r.rest), ms)
           ELSE IF Head(r.rest).t = "}" THEN ParseOk(ObjectOf(ms), Tail(r.rest))
           ELSE ParseFail

\* the type of the value a JSON text that starts with tok denotes
TypeOfToken(tok) ==
  IF tok.t = "[" THEN "array"
  ELSE IF tok.t = "{" THEN "object"
  ELSE IF tok.t = "str" THEN "string"
  ELSE IF tok.t = "num" THEN "number"
  ELSE "null"

\* JSON.parse(text): the value with its type, or a SyntaxError (ok = FALSE)
JSONparse(text) ==
  LET r == ParseValue(text)
  IN  IF r.ok /\ r.rest = <<>>
      THEN [ok |-> TRUE, value |-> [t |-> TypeOfToken(Head(text)), v |-> r.v]]
      ELSE [ok |-> FALSE, value |-> JsArray(<<>>)]

---------------------------------------------------------------------------
(* saveVendorsToStorage and loadVendorsFromStorage *)

\* localStorage.setItem(key, text) when it does not raise
SetItem(st, key, text) == [st EXCEPT ![key] = Held(text)]

\* saveVendorsToStorage without its try/catch: the store's error is thrown on
SaveUncaught(st, win, vs, setFails) ==
  IF ~win THEN [store |-> st, warned |-> FALSE, raised |-> "none"]
  ELSE IF setFails THEN [store |-> st, warned |-> FALSE, raised |-> "store"]
  ELSE [store |-> SetItem(st, "customVendors", JSONstringify(vs)),
        warned |-> FALSE, raised |-> "none"]

\* a save that empties the store before it writes its key
saveVendorsClearingStore(st, win, vs, setFails) ==
  IF ~win THEN [store |-> st, warned |-> FALSE, raised |-> "none"]
  ELSE IF setFails THEN [store |-> st, warned |-> TRUE, raised |-> "none"]
  ELSE [store |-> SetItem(EmptyStore, "customVendors", JSONstringify(vs)),
        warned |-> FALSE, raised |-> "none"]

\* the store after saveVendorsToStorage(vs), what it logs and what it throws;
\* setFails: setItem raises, and leaves the key as it was
saveVendorsToStorage(st, win, vs, setFails) ==
  IF ~win THEN [store |-> st, warned |-> FALSE, raised |-> "none"]
  ELSE IF setFails THEN [store |-> st, warned |-> TRUE, raised |-> "none"]
  ELSE [store |-> SetItem(st, "customVendors", JSONstringify(vs)),
        warned |-> FALSE, raised |-> "none"]

\* loadVendorsFromStorage without its try/catch: what escapes is thrown on
LoadUncaught(st, win, getFails) ==
  IF ~win THEN [ret |-> JsArray(<<>>), warned |-> FALSE, raised |-> "none"]
  ELSE IF getFails
       THEN [ret |-> <<>>, warned |-> FALSE, raised |-> "store"]
  ELSE IF ~st["customVendors"].has \/ st["customVendors"].text = <<>>
       THEN [ret |-> JsArray(<<>>), warned |-> FALSE, raised |-> "none"]
  ELSE IF JSONparse(st["customVendors"].text).ok
       THEN [ret |-> JSONparse(st["customVendors"].text).value,
             warned |-> FALSE, raised |-> "none"]
  ELSE [ret |-> <<>>, warned |-> FALSE, raised |-> "SyntaxError"]

\* a load that reads the store without asking for a window
loadVendorsWithoutWindowTest(st, win, getFails) ==
  IF getFails
  THEN [ret |-> JsArray(<<>>), warned |-> TRUE, raised |-> "none"]
  ELSE IF ~st["customVendors"].has \/ st["customVendors"].text = <<>>
       THEN [ret |-> JsArray(<<>>), warned |-> FALSE, raised |-> "none"]
  ELSE IF JSONparse(st["customVendors"].text).ok
       THEN [ret |-> JSONparse(st["customVendors"].text).value,
             warned |-> FALSE, raised |-> "none"]
  ELSE [ret |-> JsArray(<<>>), warned |-> TRUE, raised |-> "none"]

\* what loadVendorsFromStorage() returns, logs and throws; getFails: getItem
\* raises.  An unset key reads as null and an empty string is falsy: both
\* give [] without a parse
loadVendorsFromStorage(st, win, getFails) ==
  IF ~win THEN [ret |-> JsArray(<<>>), warned |-> FALSE, raised |-> "none"]
  ELSE IF getFails
       THEN [ret |-> JsArray(<<>>), warned |-> TRUE, raised |-> "none"]
  ELSE IF ~st["customVendors"].has \/ st["customVendors"].text = <<>>
       THEN [ret |-> JsArray(<<>>), warned |-> FALSE, raised |-> "none"]
  ELSE IF JSONparse(st["customVendors"].text).ok
       THEN [ret |-> JSONparse(st["customVendors"].text).value,
             warned |-> FALSE, raised |-> "none"]
  ELSE [ret |-> JsArray(<<>>), warned |-> TRUE, raised |-> "none"]

---------------------------------------------------------------------------
(* The default catalogue *)

\* a finite number of the catalogue, in hundred-thousandths: its prices per
\* kWh have up to five decimals.  The catalogue's strings are written whole;
\* no operation of the model takes the catalogue's plans apart
Decimal5(n) == [k |-> "fin", e5 |-> n]

\* the array literal of getDefaultVendors
DefaultPlans ==
<<
  [ vendor |-> "ΔΕΗ", plan |-> "myHomeEnter",
    fixedPrice |-> Decimal5(500000), kwhPrice |-> Decimal5(14500),
    link |-> "https://www.dei.gr/el/gia-to-spiti/revma/myhome-enter/" ],
  [ vendor |-> "ΔΕΗ", plan |-> "myHomeEnterTwo",
    fixedPrice |-> Decimal5(800000), kwhPrice |-> Decimal5(14500),
    link |-> "https://www.dei.gr/el/gia-to-spiti/revma/myhome-entertwo/" ],
  [ vendor |-> "ΔΕΗ", plan |-> "myHomeOnline",
    fixedPrice |-> Decimal5(350000), kwhPrice |-> Decimal5(14200),
    link |-> "https://www.dei.gr/el/gia-to-spiti/revma/myhome-online/" ],
  [ vendor |-> "ΖΕΝΙΘ", plan |-> "Power Home Secure 3",
    fixedPrice |-> Decimal5(990000), kwhPrice |-> Decimal5(10600),
    link |-> "https://zenith.gr/el/for-the-home/electricity/power-home-secure-2-0/" ],
  [ vendor |-> "Φυσικό Αέριο", plan |-> "Home Fixed",
    fixedPrice |-> Decimal5(990000), kwhPrice |-> Decimal5(13900),
    link |-> "https://www.fysikoaerioellados.gr/product/reyma-home-fixed/?product-category=household&product-commodity=electric-power" ],
  [ vendor |-> "Elpedison", plan |-> "Heatgreen Electricity",
    fixedPrice |-> Decimal5(1290000), kwhPrice |-> Decimal5(8800),
    link |-> "https://www.elpedison.gr/el/gia-to-spiti/revma/elpedison-heatgreen-electricity_134116/" ],
  [ vendor |-> "Elpedison", plan |-> "DriveGreen Electricity 2",
    fixedPrice |-> Decimal5(990000), kwhPrice |-> Decimal5(9990),
    link |-> "https://www.elpedison.gr/el/gia-to-spiti/revma/elpedison-drivegreen-electricity-2_133989/" ],
  [ vendor |-> "Elpedison", plan |-> "Reward Zero Fee",
    fixedPrice |-> Decimal5(0), kwhPrice |-> Decimal5(13950),
    link |-> "https://www.elpedison.gr/el/gia-to-spiti/revma/elpedison-reward-zero-fee_134062/" ],
  [ vendor |-> "Elpedison", plan |-> "Bright Home",
    fixedPrice |-> Decimal5(1290000), kwhPrice |-> Decimal5(12990),
    link |-> "https://www.elpedison.gr/el/gia-to-spiti/revma/elpedison-bright-home_134064/" ],
  [ vendor |-> "Elpedison", plan |-> "Reward Maximum",
    fixedPrice |-> Decimal5(1290000), kwhPrice |-> Decimal5(8800),
    link |-> "https://www.elpedison.gr/el/gia-to-spiti/revma/elpedison-reward-maximum_134060/" ],
  [ vendor |-> "Elpedison", plan |-> "Reward Ultra",
    fixedPrice |-> Decimal5(990000), kwhPrice |-> Decimal5(9800),
    link |-> "https://www.elpedison.gr/el/gia-to-spiti/revma/elpedison-reward-ultra_134129/" ],
  [ vendor |-> "nrg", plan |-> "FixedOnTime",
    fixedPrice |-> Decimal5(990000), kwhPrice |-> Decimal5(10780),
    link |-> "https://www.nrg.gr/el/idiotes/revma/nrg-fixed-on-time" ],
  [ vendor |-> "nrg", plan |-> "FixedOnTimeAdvanced Promo",
    fixedPrice |-> Decimal5(990000), kwhPrice |-> Decimal5(9900),
    link |-> "https://www.nrg.gr/el/idiotes/revma/nrg-fixed-ontime-advanced-promo" ],
  [ vendor |-> "nrg", plan |-> "Fixed4u12M",
    fixedPrice |-> Decimal5(1490000), kwhPrice |-> Decimal5(11500),
    link |-> "https://www.nrg.gr/el/idiotes/revma/nrg-fixed-4U-12M" ],
  [ vendor |-> "Volton", plan |-> "Blue12M",
    fixedPrice |-> Decimal5(990000), kwhPrice |-> Decimal5(10890),
    link |-> "https://volton.gr/services/volton-blue-12m/" ],
  [ vendor |-> "ΗΡΩΝ", plan |-> "Blue Generous",
    fixedPrice |-> Decimal5(990000), kwhPrice |-> Decimal5(9845),
    link |-> "https://www.heron.gr/energy/electricity/gia-to-spiti/blue-generous-home/" ],
  [ vendor |-> "ΗΡΩΝ", plan |-> "Blue Generous Max Home",
    fixedPrice |-> Decimal5(990000), kwhPrice |-> Decimal5(9450),
    link |-> "https://heron.gr/energy/electricity/gia-to-spiti/blue-generous-max-home/" ],
  [ vendor |-> "Ελίν", plan |-> "Power On! Blue Now",
    fixedPrice |-> Decimal5(990000), kwhPrice |-> Decimal5(10990),
    link |-> "https://energy.elin.gr/ilektriki-energeia-new/gia-to-spiti-ilektriko-reyma-on/power-on-bluenow12-18-24/" ],
  [ vendor |-> "Ελίν", plan |-> "Power On! Blue Now +",
    fixedPrice |-> Decimal5(1590000), kwhPrice |-> Decimal5(8990),
    link |-> "https://energy.elin.gr/ilektriki-energeia-new/gia-to-spiti-ilektriko-reyma-on/power-on-blue-12m/" ],
  [ vendor |-> "Eunice", plan |-> "Home Fair II",
    fixedPrice |-> Decimal5(400000), kwhPrice |-> Decimal5(16000),
    link |-> "https://eunice-power.gr/hlektrikh-energeia/gia-to-spiti/eunice-home-fair-ii/" ],
  [ vendor |-> "Eunice", plan |-> "Home Edge",
    fixedPrice |-> Decimal5(700000), kwhPrice |-> Decimal5(9800),
    link |-> "https://eunice-power.gr/hlektrikh-energeia/gia-to-spiti/eunice-home-edge/" ],
  [ vendor |-> "Protergia", plan |-> "Οικιακό Ρεύμα 1 Value Secure 12M",
    fixedPrice |-> Decimal5(990000), kwhPrice |-> Decimal5(9900),
    link |-> "https://www.protergia.gr/spiti/oikiako-reuma-proionta/protergia-oikiako-value-secure-12m/" ],
  [ vendor |-> "Protergia", plan |-> "Value For Family",
    fixedPrice |-> Decimal5(990000), kwhPrice |-> Decimal5(14100),
    link |-> "https://www.protergia.gr/spiti/oikiako-reuma-proionta/protergia-oikiako-value-4family/" ],
  [ vendor |-> "Protergia", plan |-> "Protergia Οικιακό Value Safe More",
    fixedPrice |-> Decimal5(990000), kwhPrice |-> Decimal5(12500),
    link |-> "https://www.protergia.gr/spiti/oikiako-reuma-proionta/protergia-oikiako-value-safe-more/" ]
>>

\* a catalogue that carries the plans last saved after its own
DefaultsWithSaved == DefaultPlans \o saved.seq

\* getDefaultVendors(): a new array of the same plans at every call
getDefaultVendors == DefaultPlans

---------------------------------------------------------------------------
(* The persistence specification: plan sequences are saved and loaded in   *)
(* any order; the store starts with the key unset or set to any string,    *)
(* and each call of the store may raise                                    *)

\* names with a quote, a backslash and a line break; an empty link; a
\* negative price; NaN and infinite prices
StorePlans ==
  { Vendor(<<"A">>, <<"P">>, Fin(5000), Fin(120), <<"u">>),
    Vendor(<<"\"", "B">>, <<"\\", "\n">>, Fin(-25), Fin(0), <<>>),
    Vendor(<<"C">>, <<"P">>, NaN, PosInf, <<"u">>) }

StoreSeqs == SeqsUpTo(StorePlans, MaxStored)

\* strings that are no JSON text: garbage, an array that is not closed, an
\* object without its value, a string with a bad escape
InvalidTexts ==
  { <<BadTok>>,
    <<Punct("["), Punct("{"), Punct("}")>>,
    <<Punct("{"), KeyTok("vendor"), Punct(":"), Punct("}")>>,
    <<StrTok(<<"\\", "x">>)>>,
    <<Punct("["), Punct("]"), Punct("]")>> }

\* JSON texts of values that are no arrays: null, 5, "x", {}
NonArrayTexts ==
  { <<NullTok>>, <<NumTok(5000)>>, <<StrTok(<<"x">>)>>, <<Punct("{"), Punct("}")>> }

\* the strings the key may hold before the first call
InitTexts ==
  InvalidTexts \cup NonArrayTexts
    \cup {<<>>, <<Punct("["), Punct("]")>>}
    \cup {JSONstringify(<<p>>) : p \in StorePlans}

InitStore ==
  /\ vendors = <<>>
  /\ kwh = Fin(0)
  /\ op = "init"
  /\ ret = <<>>
  /\ raised = "none"
  /\ levels = CONSUMPTION_LEVELS
  /\ store \in {EmptyStore} \cup
       {[EmptyStore EXCEPT !["customVendors"] = Held(text)] : text \in InitTexts}
  /\ hasWindow \in BOOLEAN
  /\ fault = FALSE
  /\ warned = FALSE
  /\ saved = NothingSaved
  /\ CsvUnused
  /\ I18nUnused

SaveVendorsToStorage(vs, setFails) ==
  /\ op' = "saveVendorsToStorage"
  /\ vendors' = vs
  /\ ret' = <<>>
  /\ store' = saveVendorsToStorage(store, hasWindow, vs, setFails).store
  /\ warned' = saveVendorsToStorage(store, hasWindow, vs, setFails).warned
  /\ raised' = saveVendorsToStorage(store, hasWindow, vs, setFails).raised
  /\ fault' = (hasWindow /\ setFails)
  /\ saved' = IF hasWindow /\ ~setFails THEN [has |-> TRUE, seq |-> vs] ELSE saved
  /\ UNCHANGED <<kwh, hasWindow, csvVars, i18nVars, levels>>

LoadVendorsFromStorage(getFails) ==
  /\ op' = "loadVendorsFromStorage"
  /\ ret' = loadVendorsFromStorage(store, hasWindow, getFails).ret
  /\ warned' = loadVendorsFromStorage(store, hasWindow, getFails).warned
  /\ raised' = loadVendorsFromStorage(store, hasWindow, getFails).raised
  /\ fault' = (hasWindow /\ getFails)
  /\ UNCHANGED <<vendors, kwh, store, hasWindow, saved, csvVars, i18nVars, levels>>

GetDefaultVendors ==
  /\ op' = "getDefaultVendors"
  /\ ret' = getDefaultVendors
  /\ raised' = "none"
  /\ fault' = FALSE
  /\ warned' = FALSE
  /\ UNCHANGED <<vendors, kwh, store, hasWindow, saved, csvVars, i18nVars, levels>>

NextStore ==
  \/ \E vs \in StoreSeqs, setFails \in BOOLEAN : SaveVendorsToStorage(vs, setFails)
  \/ \E getFails \in BOOLEAN : LoadVendorsFromStorage(getFails)
  \/ GetDefaultVendors

SpecStore == InitStore /\ [][NextStore]_vars

---------------------------------------------------------------------------
(* Strings of the CSV text: sequences of one-character strings *)

\* the white space String.prototype.trim removes and parseFloat skips (the
\* characters of it that the texts drawn contain)
Whitespace == {" ", "\t", "\r", "\n"}

RECURSIVE TrimStart(_)
TrimStart(s) ==
  IF s # <<>> /\ Head(s) \in Whitespace THEN TrimStart(Tail(s)) ELSE s

RECURSIVE TrimEnd(_)
TrimEnd(s) ==
  IF s # <<>> /\ s[Len(s)] \in Whitespace
  THEN TrimEnd(SubSeq(s, 1, Len(s) - 1))
  ELSE s

\* String.prototype.trim
Trim(s) == TrimEnd(TrimStart(s))

RECURSIVE SplitFrom(_, _, _, _, _)
SplitFrom(s, sep, i, cur, acc) ==
  IF i > Len(s) THEN Append(acc, cur)
  ELSE IF s[i] = sep THEN SplitFrom(s, sep, i + 1, <<>>, Append(acc, cur))
  ELSE SplitFrom(s, sep, i + 1, Append(cur, s[i]), acc)

\* a split that keeps a separator between double quotes inside the piece
RECURSIVE SplitQuotedFrom(_, _, _, _, _, _)
SplitQuotedFrom(s, sep, i, cur, acc, quoted) ==
  IF i > Len(s) THEN Append(acc, cur)
  ELSE IF s[i] = "\"" /\ sep = ","
  THEN SplitQuotedFrom(s, sep, i + 1, Append(cur, s[i]), acc, ~quoted)
  ELSE IF s[i] = sep /\ ~quoted
  THEN SplitQuotedFrom(s, sep, i + 1, <<>>, Append(acc, cur), quoted)
  ELSE SplitQuotedFrom(s, sep, i + 1, Append(cur, s[i]), acc, quoted)

SplitQuoted(s, sep) == SplitQuotedFrom(s, sep, 1, <<>>, <<>>, FALSE)

\* String.prototype.split on a one-character separator: the empty string
\* splits into one empty piece
Split(s, sep) == SplitFrom(s, sep, 1, <<>>, <<>>)

Digits == {"0", "1", "2", "3", "4", "5", "6", "7", "8", "9"}

DigitValue(c) ==
  CASE c = "0" -> 0 [] c = "1" -> 1 [] c = "2" -> 2 [] c = "3" -> 3
    [] c = "4" -> 4 [] c = "5" -> 5 [] c = "6" -> 6 [] c = "7" -> 7
    [] c = "8" -> 8 [] c = "9" -> 9

\* the longest prefix of s made of digits
RECURSIVE DigitRun(_)
DigitRun(s) ==
  IF s # <<>> /\ Head(s) \in Digits
  THEN <<Head(s)>> \o DigitRun(Tail(s))
  ELSE <<>>

RECURSIVE IntegerOf(_)
IntegerOf(ds) ==
  IF ds = <<>> THEN 0
  ELSE 10 * IntegerOf(SubSeq(ds, 1, Len(ds) - 1)) + DigitValue(ds[Len(ds)])

\* the digits after the point, in thousandths (the texts drawn have at most
\* three of them)
FractionOf(ds) ==
  LET d(i) == IF i <= Len(ds) THEN DigitValue(ds[i]) ELSE 0
  IN (Unit \div 10) * d(1) + (Unit \div 100) * d(2) + (Unit \div 1000) * d(3)

StartsWith(s, p) == Len(s) >= Len(p) /\ SubSeq(s, 1, Len(p)) = p

InfinityWord == <<"I", "n", "f", "i", "n", "i", "t", "y">>

\* parseFloat: white space skipped, a sign, then "Infinity" or the longest
\* decimal numeral the text starts with; what follows is ignored; NaN when
\* there is no digit.  Exponents are not read (no text drawn has one)
parseFloat(s) ==
  LET t == TrimStart(s)
      signed == t # <<>> /\ Head(t) \in {"-", "+"}
      neg == t # <<>> /\ Head(t) = "-"
      body == IF signed THEN Tail(t) ELSE t
      int == DigitRun(body)
      rest == SubSeq(body, Len(int) + 1, Len(body))
      frac == IF rest # <<>> /\ Head(rest) = "." THEN DigitRun(Tail(rest)) ELSE <<>>
      mag == Unit * IntegerOf(int) + FractionOf(frac)
  IN IF StartsWith(body, InfinityWord) THEN (IF neg THEN NegInf ELSE PosInf)
     ELSE IF int = <<>> /\ frac = <<>> THEN NaN
     ELSE Fin(IF neg THEN -mag ELSE mag)

isNaN(x) == x.k = "nan"

---------------------------------------------------------------------------
(* parseCSVData *)

TooFewColumns == "Invalid CSV format: expected at least 5 columns"
InvalidNumeric == "Invalid numeric values in CSV"

\* the column check passing at four fields already
HasTooFewBelowFour(values) == Len(values) < 4

\* the column check asking for exactly five fields
HasOtherThanFive(values) == Len(values) # 5

\* values.length < 5, the check on the header and on each row
HasTooFew(values) == Len(values) < 5

\* the record of a row whose fields are taken as they stand in the line
RowRecordUntrimmed(values) ==
  Vendor(values[1], values[2],
         parseFloat(Trim(values[3])), parseFloat(Trim(values[4])), values[5])

\* the record returned for a row
RowRecord(values) ==
  Vendor(Trim(values[1]), Trim(values[2]),
         parseFloat(Trim(values[3])), parseFloat(Trim(values[4])),
         Trim(values[5]))

\* a callback that looks at the numbers before it counts the fields
ParseRowNumbersFirst(line) ==
  LET values == Split(line, ",")
  IN IF Len(values) >= 4 /\ (\/ isNaN(parseFloat(Trim(values[3])))
                             \/ isNaN(parseFloat(Trim(values[4]))))
     THEN [raised |-> InvalidNumeric, ret |-> <<>>]
     ELSE IF HasTooFew(values)
     THEN [raised |-> TooFewColumns, ret |-> <<>>]
     ELSE [raised |-> "none", ret |-> <<RowRecord(values)>>]

\* the callback of the map on one line: the error it throws, or its record
ParseRow(line) ==
  LET values == Split(line, ",")
  IN IF HasTooFew(values)
     THEN [raised |-> TooFewColumns, ret |-> <<>>]
     ELSE IF \/ isNaN(parseFloat(Trim(values[3])))
             \/ isNaN(parseFloat(Trim(values[4])))
     THEN [raised |-> InvalidNumeric, ret |-> <<>>]
     ELSE [raised |-> "none", ret |-> <<RowRecord(values)>>]

\* a map that leaves out the rows that throw
RECURSIVE MapRowsSkipBad(_, _)
MapRowsSkipBad(rows, acc) ==
  IF rows = <<>> THEN [raised |-> "none", ret |-> acc]
  ELSE MapRowsSkipBad(Tail(rows), acc \o ParseRow(Head(rows)).ret)

\* lines.slice(1).map(...): rows in order, the first throw ends the call
RECURSIVE MapRows(_, _)
MapRows(rows, acc) ==
  IF rows = <<>> THEN [raised |-> "none", ret |-> acc]
  ELSE LET row == ParseRow(Head(rows))
       IN IF row.raised # "none"
          THEN [raised |-> row.raised, ret |-> <<>>]
          ELSE MapRows(Tail(rows), acc \o row.ret)

\* a parser that asks for the name "v" over the first column
parseCSVDataNamedColumns(text) ==
  LET lines == Split(Trim(text), "\n")
      headers == Split(lines[1], ",")
  IN IF HasTooFew(headers) \/ Trim(headers[1]) # <<"v">>
     THEN [raised |-> TooFewColumns, ret |-> <<>>]
     ELSE MapRows(Tail(lines), <<>>)

\* a parser that answers a text of white space only with no records
parseCSVDataBlankIsEmpty(text) ==
  LET lines == Split(Trim(text), "\n")
      headers == Split(lines[1], ",")
  IN IF Trim(text) = <<>>
     THEN [raised |-> "none", ret |-> <<>>]
     ELSE IF HasTooFew(headers)
     THEN [raised |-> TooFewColumns, ret |-> <<>>]
     ELSE MapRows(Tail(lines), <<>>)

parseCSVData(text) ==
  LET lines == Split(Trim(text), "\n")
      headers == Split(lines[1], ",")
  IN IF HasTooFew(headers)
     THEN [raised |-> TooFewColumns, ret |-> <<>>]
     ELSE MapRows(Tail(lines), <<>>)

---------------------------------------------------------------------------
(* The parsing specification: a text is written from a header line and up  *)
(* to MaxRows further lines, each a list of fields joined by commas, the   *)
(* lines joined by line feeds, with or without white space around the      *)
(* whole; one call parses it                                               *)

\* header lines: five names, six names in another order, four names and
\* the empty line (alone it makes the empty text, or one of white space only)
CsvHeaders ==
  { <<<<"v">>, <<"p">>, <<"f">>, <<"k">>, <<"l">>>>,
    <<<<"l">>, <<"k">>, <<"f">>, <<"p">>, <<"v">>, <<"x">>>>,
    <<<<"v">>, <<"p">>, <<"f">>, <<"k">>>>,
    <<<<>>>> }

\* the lines after the header
CsvRows ==
  {
    \* a plain row
    <<<<"A">>, <<"P">>, <<"5">>, <<"0", ".", "1", "2">>, <<"u">>>>,
    \* white space around the fields, a negative price, an empty link
    <<<<" ", "B", " ">>, <<"\t", "Q">>, <<" ", "-", "2", ".", "5", " ">>, <<" ", " ", "7">>, <<>>>>,
    \* a sixth field, and a carriage return left by a CRLF line end
    <<<<"C">>, <<"P">>, <<"1", "0">>, <<".", "5">>, <<"u", "\r">>, <<"x">>>>,
    \* a numeral followed by letters, and Infinity
    <<<<"D">>, <<"P">>, <<"5", "a", "b", "c">>, <<"I", "n", "f", "i", "n", "i", "t", "y">>, <<"u">>>>,
    \* an empty price
    <<<<"E">>, <<"P">>, <<>>, <<"1">>, <<"u">>>>,
    \* four fields
    <<<<"H">>, <<"P">>, <<"x">>, <<"2">>>>,
    \* an empty line
    <<<<>>>>,
    \* a quoted name with a comma: "I, J",P,1,2,u
    <<<<"\"", "I">>, <<" ", "J", "\"">>, <<"P">>, <<"1">>, <<"2">>, <<"u">>>>,
    \* a quoted link with a comma: K,P,1,2,"u,w"
    <<<<"K">>, <<"P">>, <<"1">>, <<"2">>, <<"\"", "u">>, <<"w", "\"">>>>
  }

\* what the text has before its first line and after its last
Wraps ==
  { [lead |-> <<>>, trail |-> <<>>],
    [lead |-> <<" ", "\n">>, trail |-> <<"\n">>] }

RECURSIVE Join(_, _)
Join(ss, sep) ==
  IF ss = <<>> THEN <<>>
  ELSE IF Len(ss) = 1 THEN ss[1]
  ELSE ss[1] \o <<sep>> \o Join(Tail(ss), sep)

\* the text written from the lines of d
TextOf(d) ==
  d.lead \o Join([i \in 1..Len(d.lines) |-> Join(d.lines[i], ",")], "\n")
         \o d.trail

InitCSV ==
  /\ vendors = <<>>
  /\ kwh = Fin(0)
  /\ op = "init"
  /\ ret = <<>>
  /\ raised = "none"
  /\ levels = CONSUMPTION_LEVELS
  /\ StoreUnused
  /\ \E h \in CsvHeaders, rows \in SeqsUpTo(CsvRows, MaxRows), w \in Wraps :
       doc = [lead |-> w.lead, lines |-> <<h>> \o rows, trail |-> w.trail]
  /\ csvText = TextOf(doc)
  /\ I18nUnused

ParseCSVData ==
  /\ op = "init"
  /\ op' = "parseCSVData"
  /\ ret' = parseCSVData(csvText).ret
  /\ raised' = parseCSVData(csvText).raised
  /\ UNCHANGED <<vendors, kwh, storeVars, csvVars, i18nVars, levels>>

NextCSV == ParseCSVData

SpecCSV == InitCSV /\ [][NextCSV]_vars

---------------------------------------------------------------------------
(* Properties of the parsing *)

\* the decimal numerals the rows are written with, and their values
Numerals ==
  { [text |-> <<"5">>, value |-> Fin(5000)],
    [text |-> <<"0", ".", "1", "2">>, value |-> Fin(120)],
    [text |-> <<"-", "2", ".", "5">>, value |-> Fin(-2500)],
    [text |-> <<"7">>, value |-> Fin(7000)],
    [text |-> <<"1", "0">>, value |-> Fin(10000)],
    [text |-> <<".", "5">>, value |-> Fin(500)],
    [text |-> <<"1">>, value |-> Fin(1000)],
    [text |-> <<"2">>, value |-> Fin(2000)] }

\* the field is a decimal numeral, white space around it or not
IsNumeral(field) == \E n \in Numerals : n.text = Trim(field)

ValueOf(field) == (CHOOSE n \in Numerals : n.text = Trim(field)).value

\* the lines of d after its header
RowsOf(d) == Tail(d.lines)

\* d is well formed: five fields or more in the header and in every row,
\* and the third and fourth field of every row a numeral
WellFormed(d) ==
  /\ Len(d.lines[1]) >= 5
  /\ \A i \in 1..Len(RowsOf(d)) :
       /\ Len(RowsOf(d)[i]) >= 5
       /\ IsNumeral(RowsOf(d)[i][3])
       /\ IsNumeral(RowsOf(d)[i][4])

\* C9: on a well-formed text of N rows parseCSVData returns N records in
\* the order of the rows; record i has the vendor, plan, fixedPrice,
\* kwhPrice and link of fields 1 to 5 of row i, each without the white
\* space around it; an empty fifth field gives the empty link.
C9_WellFormedGivesTrimmedRecords ==
  op = "parseCSVData" /\ WellFormed(doc) =>
    /\ raised = "none"
    /\ Len(ret) = Len(RowsOf(doc))
    /\ \A i \in 1..Len(RowsOf(doc)) :
         ret[i] = Vendor(Trim(RowsOf(doc)[i][1]), Trim(RowsOf(doc)[i][2]),
                         ValueOf(RowsOf(doc)[i][3]), ValueOf(RowsOf(doc)[i][4]),
                         Trim(RowsOf(doc)[i][5]))

\* three rows were parsed, the second with white space around its fields
\* and an empty link, the third with a sixth field
C9_Witness ==
  /\ op = "parseCSVData"
  /\ WellFormed(doc)
  /\ Len(ret) = 3
  /\ RowsOf(doc)[2][1] = <<" ", "B", " ">>
  /\ RowsOf(doc)[2][5] = <<>>
  /\ ret[2] = Vendor(<<"B">>, <<"Q">>, Fin(-2500), Fin(7000), <<>>)
  /\ Len(RowsOf(doc)[3]) = 6
  /\ ret[3].link = <<"u">>

\* the lines parseCSVData splits the text into, and their numbers of fields
LinesOf(text) == Split(Trim(text), "\n")
FieldCount(line) == Len(Split(line, ","))

\* the fields of every line of the text
FieldsOf(text) ==
  LET lines == LinesOf(text)
  IN [i \in 1..Len(lines) |-> Split(lines[i], ",")]

\* line i of the table t of fields has fewer than five fields
ShortIn(t, i) == Len(t[i]) < 5

\* line i of t has five fields or more and a third or fourth field without
\* a number
BadNumberIn(t, i) ==
  /\ Len(t[i]) >= 5
  /\ \/ isNaN(parseFloat(Trim(t[i][3])))
     \/ isNaN(parseFloat(Trim(t[i][4])))

\* some line of the text, the header or a row, has fewer than five fields
SomeLineShort(text) ==
  LET t == FieldsOf(text) IN \E i \in 1..Len(t) : ShortIn(t, i)

\* line i has five fields or more and a third or fourth field without a number
BadNumber(text, i) == BadNumberIn(FieldsOf(text), i)

\* the first line at fault is one with fewer than five fields: the header,
\* or a row with no row of a bad number before it
ShortLineComesFirst(text) ==
  LET t == FieldsOf(text)
  IN \/ ShortIn(t, 1)
     \/ \E i \in 2..Len(t) :
          /\ ShortIn(t, i)
          /\ \A j \in 2..(i - 1) : ~BadNumberIn(t, j)

\* C10: parseCSVData raises the error of too few columns whenever the header
\* or any row has fewer than five comma-separated fields, and never raises
\* it when the header and every row have five or more.
C10_TooFewColumnsIffSomeLineShort ==
  op = "parseCSVData" =>
    (raised = TooFewColumns <=> SomeLineShort(csvText))

\* C10 as the code has it: the error of too few columns is raised exactly
\* when the first line at fault has fewer than five fields; a short line
\* after a row with a bad number ends in the error of that row; a text with
\* a short line never gives records.
C10_TooFewColumnsIffShortLineFirst ==
  op = "parseCSVData" =>
    LET short == SomeLineShort(csvText)
    IN /\ raised = TooFewColumns <=> ShortLineComesFirst(csvText)
       /\ short => raised \in {TooFewColumns, InvalidNumeric}
       /\ ~short => raised # TooFewColumns

\* a row of four fields after two good rows raised the error of too few
\* columns, under a header of six
C10_Witness ==
  /\ op = "parseCSVData"
  /\ raised = TooFewColumns
  /\ Len(LinesOf(csvText)) = 4
  /\ FieldCount(LinesOf(csvText)[1]) = 6
  /\ FieldCount(LinesOf(csvText)[2]) >= 5
  /\ FieldCount(LinesOf(csvText)[3]) >= 5
  /\ FieldCount(LinesOf(csvText)[4]) = 4

---------------------------------------------------------------------------
(* Properties of the persistence *)

\* a number as it comes back from the store: a NaN or an infinity as null
NumberAsStored(x) == IF x.k = "fin" THEN x ELSE Null

\* a plan sequence as it comes back from the store
AsStored(vs) ==
  [i \in 1..Len(vs) |->
     [vs[i] EXCEPT !.fixedPrice = NumberAsStored(@), !.kwhPrice = NumberAsStored(@)]]

\* every price of the plans of vs is a finite number
AllFinite(vs) ==
  \A i \in 1..Len(vs) : vs[i].fixedPrice.k = "fin" /\ vs[i].kwhPrice.k = "fin"

\* a load that followed a save at once, the store raising in neither
LoadRightAfterSave ==
  /\ hasWindow
  /\ op = "saveVendorsToStorage" /\ ~fault
  /\ op' = "loadVendorsFromStorage" /\ ~fault'

\* C5: on a working store, loadVendorsFromStorage() called after
\* saveVendorsToStorage(S) returns a sequence deep-equal to S, for every
\* numeric field value a plan may hold.
C5_LoadAfterSaveReturnsSaved ==
  [][LoadRightAfterSave => ret' = JsArray(vendors)]_vars

\* the round trip of C5 for plans whose prices are all finite, and what a NaN
\* or infinite price comes back as
RoundTripUpToNonFinite ==
  [][LoadRightAfterSave =>
       /\ ret' = JsArray(AsStored(vendors))
       /\ AllFinite(vendors) => ret' = JsArray(vendors)]_vars

\* C6: loadVendorsFromStorage() never raises, and returns the empty sequence
\* when the key is absent, when the stored string is no JSON text and when
\* the store's read raises.
C6_LoadFailuresGiveEmpty ==
  op = "loadVendorsFromStorage" =>
    /\ raised = "none"
    /\ ( \/ ~store["customVendors"].has
         \/ store["customVendors"].text \in InvalidTexts
         \/ fault )
       => ret = JsArray(<<>>)

\* a load met a stored string that is no JSON text, logged it and gave []
C6_Witness ==
  /\ op = "loadVendorsFromStorage"
  /\ hasWindow /\ ~fault
  /\ store["customVendors"].has
  /\ store["customVendors"].text \in InvalidTexts
  /\ warned
  /\ ret = JsArray(<<>>)

\* C7: saveVendorsToStorage never raises; when the store's write raises the
\* call returns normally and the key holds exactly what it held before, so
\* that a load after it returns the plans saved before (as the store gives
\* them back).
C7_FailedSaveChangesNothing ==
  [][ /\ (op' = "saveVendorsToStorage" => raised' = "none")
      /\ (op' = "saveVendorsToStorage" /\ fault' => store' = store)
      /\ ( /\ op = "saveVendorsToStorage" /\ fault /\ saved.has
           /\ op' = "loadVendorsFromStorage" /\ ~fault' )
         => ret' = JsArray(AsStored(saved.seq)) ]_vars

\* a save of other plans failed after a save that succeeded, and the key
\* still holds the plans of the earlier one
C7_Witness ==
  /\ op = "saveVendorsToStorage"
  /\ fault /\ warned
  /\ saved.has
  /\ saved.seq # vendors
  /\ saved.seq # <<>>
  /\ store["customVendors"].text = JSONstringify(saved.seq)

\* C8: a save replaces what the key held, and after any sequence of saves on
\* a working store a load returns exactly the plans of the last save.
C8_LoadReturnsLastSave ==
  op = "loadVendorsFromStorage" /\ hasWindow /\ ~fault /\ saved.has =>
    ret = JsArray(saved.seq)

\* the last save of C8 up to the loss of C5: a load returns the plans of the
\* last save that reached the store, as the store gives them back, and the
\* key holds the encoding of those plans alone
LastSaveWinsUpToNonFinite ==
  /\ op = "loadVendorsFromStorage" /\ hasWindow /\ ~fault /\ saved.has =>
       ret = JsArray(AsStored(saved.seq))
  /\ saved.has => store["customVendors"] = Held(JSONstringify(saved.seq))

---------------------------------------------------------------------------
(* Further properties of the parsing *)

\* every price of the records of rs is a finite number
RecordsFinite(rs) ==
  \A i \in 1..Len(rs) : rs[i].fixedPrice.k = "fin" /\ rs[i].kwhPrice.k = "fin"

\* C11: every record parseCSVData returns has a finite fixedPrice and a
\* finite kwhPrice; a row whose third or fourth field is empty, is no number
\* or denotes infinity ends the call in the error of invalid numeric values.
C11_RecordsHaveFinitePrices ==
  op = "parseCSVData" => RecordsFinite(ret)

\* what the code keeps of C11: no price of a record is NaN, and a row of
\* five fields or more with a price that parses to NaN never gives records
NoRecordHasNaNPrice ==
  op = "parseCSVData" =>
    /\ \A i \in 1..Len(ret) : ~isNaN(ret[i].fixedPrice) /\ ~isNaN(ret[i].kwhPrice)
    /\ (\E i \in 2..Len(LinesOf(csvText)) : BadNumber(csvText, i))
         => raised # "none" /\ ret = <<>>

\* row i of the text is malformed: fewer than five fields, or a price that
\* is no number
Malformed(text, i) ==
  LET t == FieldsOf(text) IN ShortIn(t, i) \/ BadNumberIn(t, i)

\* C12: parseCSVData gives all or nothing: when any row is malformed the
\* call ends in an error and gives no record, whatever the number of good
\* rows before or after the bad one; no bad row is skipped.
C12_AnyMalformedRowFailsTheCall ==
  op = "parseCSVData" =>
    LET t == FieldsOf(csvText)
    IN (\E i \in 2..Len(t) : ShortIn(t, i) \/ BadNumberIn(t, i)) =>
         /\ raised \in {TooFewColumns, InvalidNumeric}
         /\ ret = <<>>

\* a malformed row between two good rows, under a good header: the call
\* failed and gave nothing
C12_Witness ==
  /\ op = "parseCSVData"
  /\ Len(LinesOf(csvText)) = 4
  /\ FieldCount(LinesOf(csvText)[1]) >= 5
  /\ ~Malformed(csvText, 2)
  /\ Malformed(csvText, 3)
  /\ ~Malformed(csvText, 4)
  /\ raised # "none"
  /\ ret = <<>>

---------------------------------------------------------------------------
(* Properties of the default catalogue *)

\* C13: getDefaultVendors() is pure and deterministic: every call returns
\* the same 24 plans in the same order, whatever the store holds and
\* whatever was saved or loaded before, and it changes nothing.
C13_DefaultsAreTheSame24Plans ==
  [][op' = "getDefaultVendors" =>
       /\ raised' = "none"
       /\ Len(ret') = 24
       /\ ret' = DefaultPlans
       /\ ret'[1].plan = "myHomeEnter"
       /\ ret'[24].fixedPrice = Decimal5(990000)
       /\ store' = store
       /\ vendors' = vendors]_vars

\* the catalogue was asked for after a save of plans reached the store
C13_Witness ==
  /\ op = "getDefaultVendors"
  /\ saved.has
  /\ saved.seq # <<>>
  /\ store["customVendors"] = Held(JSONstringify(saved.seq))
  /\ Len(ret) = 24

---------------------------------------------------------------------------
(* Further properties of the pricing and the ranking *)

\* the sum of the priced plan r at quantity q, before rounding
SumOf(r, q) == Add(r.fixedPrice, Mul(r.kwhPrice, q))

\* the priced plan r carries the five fields of the plan v
PricedFrom(r, v) ==
  /\ r.vendor = v.vendor /\ r.plan = v.plan /\ r.link = v.link
  /\ r.fixedPrice = v.fixedPrice /\ r.kwhPrice = v.kwhPrice

\* a NaN among the operands of r gives a NaN total, an infinite sum gives
\* that infinity
NonFinitePropagates(r, q) ==
  /\ (isNaN(r.fixedPrice) \/ isNaN(r.kwhPrice) \/ isNaN(q)) => isNaN(r.totalPrice)
  /\ SumOf(r, q).k = "inf" => r.totalPrice = SumOf(r, q)
  /\ r.totalPrice.k \in {"fin", "nan", "inf"}

\* C14: calculatePrice and calculateAllPrices are total: for every numeric
\* input, negative, zero, NaN and infinite ones included, they return and do
\* not raise; a NaN operand gives the total NaN, an infinite sum an infinite
\* total, and calculateAllPrices gives one priced plan for each plan.
C14_PricingIsTotal ==
  op = "calculateAllPrices" =>
    /\ raised = "none"
    /\ Len(ret) = Len(vendors)
    /\ \A i \in 1..Len(vendors) : \E j \in 1..Len(ret) : PricedFrom(ret[j], vendors[i])
    /\ \A j \in 1..Len(ret) : NonFinitePropagates(ret[j], kwh)

\* plans were ranked at an infinite quantity: a plan of NaN price came out
\* with a NaN total, the others with an infinite one
C14_Witness ==
  /\ op = "calculateAllPrices"
  /\ kwh = PosInf
  /\ Len(ret) = 3
  /\ \E j \in 1..3 : isNaN(ret[j].fixedPrice) /\ isNaN(ret[j].totalPrice)
  /\ \E j \in 1..3 : ret[j].fixedPrice.k = "fin" /\ ret[j].totalPrice = PosInf

\* the pricing of one plan is total in the same way, for every sign,
\* NaN and infinity of the fixed price, of the rate and of the quantity
PriceOfOnePlanIsTotal ==
  op = "calculatePrice" =>
    /\ raised = "none"
    /\ PricedFrom(ret, vendors[1])
    /\ NonFinitePropagates(ret, kwh)

---------------------------------------------------------------------------
(* Translations *)

\* the translation tables.  The strings are written whole; a character
\* outside the Basic Multilingual Plane is written by its code point, U+...
translations ==
[
  en |->
    [ title |-> "Energy Price Comparison",
      description |-> "Compare electricity prices across different vendors and consumption levels",
      vendorManagement |-> "U+1F4CA Vendor Management",
      addCustomVendor |-> "Add Custom Vendor",
      hideNonCustomVendors |-> "Hide all non-custom vendors",
      vendorName |-> "Vendor Name",
      planName |-> "Plan Name",
      fixedPrice |-> "Fixed Price (€)",
      kwhPrice |-> "kWh Price (€)",
      link |-> "Link (optional)",
      addVendor |-> "Add Vendor",
      customVendors |-> "Custom Vendors",
      remove |-> "Remove",
      planRankingAnalysis |-> "U+1F3C6 Plan Analysis",
      selectPlanToAnalyze |-> "Select a plan to analyze its ranking across consumption levels:",
      choosePlan |-> "Choose a plan...",
      rankingAnalysisFor |-> "Ranking Analysis for",
      rankingByConsumptionLevel |-> "Ranking by Consumption Level",
      consumption |-> "Consumption (kWh)",
      rank |-> "Rank",
      totalPrice |-> "Total Price",
      bestPlan |-> "Best Plan",
      bestPlanPrice |-> "Best Plan Price",
      summaryStatistics |-> "Summary Statistics",
      averageRank |-> "Average Rank",
      bestRank |-> "Best Rank",
      worstRank |-> "Worst Rank",
      timesRankedFirst |-> "Times Ranked #1",
      priceComparison |-> "U+1F4B0 Price Comparison",
      expandAll |-> "Expand All",
      collapseAll |-> "Collapse All",
      consumptionLevel |-> "kWh",
      visit |-> "Visit",
      languageSelect |-> "Language",
      english |-> "English",
      greek |-> "Greek",
      footerDisclaimer |-> "This page compares only the fixed (blue) tariffs of providers.",
      lastUpdate |-> "Last update: 2025-08-08",
      vendor |-> "Vendor",
      plan |-> "Plan" ],
  el |->
    [ title |-> "Σύγκριση Τιμών Ενέργειας",
      description |-> "Συγκρίνετε τις τιμές ηλεκτρικής ενέργειας μεταξύ διαφορετικών παρόχων και επιπέδων κατανάλωσης",
      vendorManagement |-> "U+1F4CA Διαχείριση Παρόχων",
      addCustomVendor |-> "Προσθήκη Προσαρμοσμένου Παρόχου",
      hideNonCustomVendors |-> "Απόκρυψη όλων των μη προσαρμοσμένων παρόχων",
      vendorName |-> "Όνομα Παρόχου",
      planName |-> "Όνομα Προγράμματος",
      fixedPrice |-> "Πάγιο (€)",
      kwhPrice |-> "Τιμή kWh (€)",
      link |-> "Σύνδεσμος (προαιρετικό)",
      addVendor |-> "Προσθήκη Παρόχου",
      customVendors |-> "Προσαρμοσμένοι Πάροχοι",
      remove |-> "Αφαίρεση",
      planRankingAnalysis |-> "U+1F3C6 Ανάλυση Προγραμμάτων",
      selectPlanToAnalyze |-> "Επιλέξτε ένα πρόγραμμα για να αναλύσετε την κατάταξή του σε διαφορετικά επίπεδα κατανάλωσης:",
      choosePlan |-> "Επιλέξτε πρόγραμμα...",
      rankingAnalysisFor |-> "Ανάλυση Κατάταξης για",
      rankingByConsumptionLevel |-> "Κατάταξη ανά Επίπεδο Κατανάλωσης",
      consumption |-> "Κατανάλωση (kWh)",
      rank |-> "Κατάταξη",
      totalPrice |-> "Συνολική Τιμή",
      bestPlan |-> "Καλύτερο Πρόγραμμα",
      bestPlanPrice |-> "Τιμή Καλύτερου Προγράμματος",
      summaryStatistics |-> "Συνοπτικά Στατιστικά",
      averageRank |-> "Μέση Κατάταξη",
      bestRank |-> "Καλύτερη Κατάταξη",
      worstRank |-> "Χειρότερη Κατάταξη",
      timesRankedFirst |-> "Φορές #1",
      priceComparison |-> "U+1F4B0 Σύγκριση Τιμών",
      expandAll |-> "Επέκταση Όλων",
      collapseAll |-> "Σύμπτυξη Όλων",
      consumptionLevel |-> "kWh",
      visit |-> "Επίσκεψη",
      languageSelect |-> "Γλώσσα",
      english |-> "English",
      greek |-> "Ελληνικά",
      footerDisclaimer |-> "Αυτή η σελίδα συγκρίνει μόνο τα σταθερά (μπλέ) τιμολόγια παρόχων.",
      lastUpdate |-> "Τελευταία ενημέρωση: 2025-08-08",
      vendor |-> "Πάροχος",
      plan |-> "Πρόγραμμα" ]
]

\* values of the language as the translation functions meet them
Undefined == [t |-> "undefined"]
Str(s) == [t |-> "string", s |-> s]
\* a member that every object inherits from Object.prototype: a function,
\* or, under __proto__, the prototype itself
Inherited(name) == [t |-> "inherited", name |-> name]
\* an object with the own properties of the record own, all strings
Obj(own) == [t |-> "object", own |-> own]

\* the names every object answers to by inheritance
ObjectPrototypeNames ==
  { "constructor", "hasOwnProperty", "isPrototypeOf", "propertyIsEnumerable",
    "toLocaleString", "toString", "valueOf", "__proto__",
    "__defineGetter__", "__defineSetter__", "__lookupGetter__",
    "__lookupSetter__" }

\* own[name]: an own property, or else an inherited member
GetProperty(own, name) ==
  IF name \in DOMAIN own THEN Str(own[name])
  ELSE IF name \in ObjectPrototypeNames THEN Inherited(name)
  ELSE Undefined

\* translations[lang]
LangTable(lang) ==
  IF lang \in DOMAIN translations THEN Obj(translations[lang])
  ELSE IF lang \in ObjectPrototypeNames THEN Inherited(lang)
  ELSE Undefined

\* obj?.[name]; an inherited member has, of the names drawn, the inherited
\* ones only
OptionalGet(obj, name) ==
  IF obj.t = "undefined" THEN Undefined
  ELSE IF obj.t = "object" THEN GetProperty(obj.own, name)
  ELSE IF name \in ObjectPrototypeNames THEN Inherited(name)
  ELSE Undefined

\* undefined and the empty string are falsy
Truthy(v) == v.t # "undefined" /\ (v.t = "string" => v.s # "")

\* a || b
OrElse(a, b) == IF Truthy(a) THEN a ELSE b

\* a getCurrentLanguage that catches what the store raises and answers 'en'
getCurrentLanguageCaught(st, win, getFails) ==
  IF ~win \/ getFails THEN [ret |-> Str("en"), raised |-> "none"]
  ELSE IF st["language"].has /\ st["language"].text # ""
       THEN [ret |-> Str(st["language"].text), raised |-> "none"]
  ELSE [ret |-> Str("en"), raised |-> "none"]

\* getCurrentLanguage(): what it returns and throws; getFails: getItem raises
getCurrentLanguage(st, win, getFails) ==
  IF ~win THEN [ret |-> Str("en"), raised |-> "none"]
  ELSE IF getFails THEN [ret |-> Undefined, raised |-> "store"]
  ELSE IF st["language"].has /\ st["language"].text # ""
       THEN [ret |-> Str(st["language"].text), raised |-> "none"]
  ELSE [ret |-> Str("en"), raised |-> "none"]

\* a setLanguage that keeps the language the key holds already
SetLanguageOnce(st, win, language, setFails) ==
  IF ~win THEN [store |-> st, raised |-> "none"]
  ELSE IF setFails THEN [store |-> st, raised |-> "store"]
  ELSE IF st["language"].has THEN [store |-> st, raised |-> "none"]
  ELSE [store |-> SetItem(st, "language", language), raised |-> "none"]

\* setLanguage(language): the store after it and what it throws; setFails:
\* setItem raises, and leaves the key as it was
setLanguage(st, win, language, setFails) ==
  IF ~win THEN [store |-> st, raised |-> "none"]
  ELSE IF setFails THEN [store |-> st, raised |-> "store"]
  ELSE [store |-> SetItem(st, "language", language), raised |-> "none"]

\* getTranslation(key)
getTranslation(st, win, k, getFails) ==
  LET currentLang == getCurrentLanguage(st, win, getFails)
  IN IF currentLang.raised # "none"
     THEN [ret |-> Undefined, raised |-> currentLang.raised]
     ELSE [ret |-> OrElse(OrElse(OptionalGet(LangTable(currentLang.ret.s), k),
                                 GetProperty(translations["en"], k)),
                          Str(k)),
           raised |-> "none"]

---------------------------------------------------------------------------
(* The language specification: the language is set and read and keys are   *)
(* translated, in any order; the store starts with the language unset or   *)
(* set, and each call of the store may raise                               *)

\* language codes: none, the two of the tables, one of no table, and one
\* that names an inherited member
Languages == {"", "en", "el", "invalid", "constructor"}

\* keys: those of the tables, one of no table, one that names an inherited
\* member, and the empty key
TransKeys == DOMAIN translations["en"] \cup {"nonexistentKey", "toString", ""}

InitLang ==
  /\ vendors = <<>>
  /\ kwh = Fin(0)
  /\ op = "init"
  /\ ret = <<>>
  /\ raised = "none"
  /\ levels = CONSUMPTION_LEVELS
  /\ store \in {EmptyStore} \cup
       {[EmptyStore EXCEPT !["language"] = Held(l)] : l \in Languages}
  /\ hasWindow \in BOOLEAN
  /\ fault = FALSE
  /\ warned = FALSE
  /\ saved = NothingSaved
  /\ CsvUnused
  /\ I18nUnused

SetLanguage(language, setFails) ==
  /\ op' = "setLanguage"
  /\ ret' = Undefined
  /\ store' = setLanguage(store, hasWindow, language, setFails).store
  /\ raised' = setLanguage(store, hasWindow, language, setFails).raised
  /\ fault' = (hasWindow /\ setFails)
  /\ warned' = FALSE
  /\ lastSet' = [has |-> TRUE, language |-> language,
                 stored |-> hasWindow /\ ~setFails]
  /\ UNCHANGED <<vendors, kwh, hasWindow, saved, csvVars, transKey, levels>>

GetCurrentLanguage(getFails) ==
  /\ op' = "getCurrentLanguage"
  /\ ret' = getCurrentLanguage(store, hasWindow, getFails).ret
  /\ raised' = getCurrentLanguage(store, hasWindow, getFails).raised
  /\ fault' = (hasWindow /\ getFails)
  /\ warned' = FALSE
  /\ UNCHANGED <<vendors, kwh, store, hasWindow, saved, csvVars, i18nVars, levels>>

GetTranslation(k, getFails) ==
  /\ op' = "getTranslation"
  /\ transKey' = k
  /\ ret' = getTranslation(store, hasWindow, k, getFails).ret
  /\ raised' = getTranslation(store, hasWindow, k, getFails).raised
  /\ fault' = (hasWindow /\ getFails)
  /\ warned' = FALSE
  /\ UNCHANGED <<vendors, kwh, store, hasWindow, saved, csvVars, lastSet, levels>>

NextLang ==
  \/ \E l \in Languages, setFails \in BOOLEAN : SetLanguage(l, setFails)
  \/ \E getFails \in BOOLEAN : GetCurrentLanguage(getFails)
  \/ \E k \in TransKeys, getFails \in BOOLEAN : GetTranslation(k, getFails)

SpecLang == InitLang /\ [][NextLang]_vars

---------------------------------------------------------------------------
(* Properties of the translations *)

\* the language in force: the one the key holds, 'en' when there is no
\* window, no language or the empty one
LanguageInForce ==
  IF hasWindow /\ store["language"].has /\ store["language"].text # ""
  THEN store["language"].text
  ELSE "en"

\* the table of lang has a non-empty string for k
Translates(lang, k) ==
  /\ lang \in DOMAIN translations
  /\ k \in DOMAIN translations[lang]
  /\ translations[lang][k] # ""

\* the three steps: the table of the language, the English table, the key
ThreeSteps(lang, k) ==
  IF Translates(lang, k) THEN translations[lang][k]
  ELSE IF Translates("en", k) THEN translations["en"][k]
  ELSE k

\* C15: getTranslation(key) returns the translation of the current language
\* when it has a non-empty one, or else the English one, or else the key
\* itself, and so a non-empty string for every non-empty key.
C15_ThreeStepFallback ==
  op = "getTranslation" /\ ~fault =>
    /\ raised = "none"
    /\ ret = Str(ThreeSteps(LanguageInForce, transKey))
    /\ transKey # "" => ret.t = "string" /\ ret.s # ""

\* the three steps of C15 hold for every key that names no inherited member
ThreeStepsForOrdinaryKeys ==
  op = "getTranslation" /\ ~fault /\ transKey \notin ObjectPrototypeNames =>
    /\ raised = "none"
    /\ ret = Str(ThreeSteps(LanguageInForce, transKey))
    /\ transKey # "" => ret.s # ""

\* C16: the language persists: on a working store getCurrentLanguage()
\* returns the argument of the last setLanguage call; it returns 'en' when
\* no language is set, when the stored one is the empty string and when
\* there is no window.
C16_LastLanguageSetIsCurrent ==
  op = "getCurrentLanguage" /\ ~fault =>
    /\ raised = "none"
    /\ ~hasWindow => ret = Str("en")
    /\ ~store["language"].has => ret = Str("en")
    /\ store["language"] = Held("") => ret = Str("en")
    /\ hasWindow /\ lastSet.has /\ lastSet.stored /\ lastSet.language # ""
         => ret = Str(lastSet.language)

\* the language was set to 'el' and then read
C16_Witness ==
  /\ op = "getCurrentLanguage"
  /\ hasWindow /\ ~fault
  /\ lastSet = [has |-> TRUE, language |-> "el", stored |-> TRUE]
  /\ ret = Str("el")

---------------------------------------------------------------------------
(* Further properties of the persistence *)

\* C17: whatever string the key holds, loadVendorsFromStorage() returns a
\* sequence, never null, a number, a string or a single object, also when
\* the string is the JSON text of a value that is no array.
C17_LoadReturnsASequence ==
  op = "loadVendorsFromStorage" => ret.t = "array"

\* what the code keeps of C17: a load returns a sequence unless the key
\* holds the JSON text of a value that is no array, and then that value
LoadReturnsWhatWasParsed ==
  op = "loadVendorsFromStorage" /\ ret.t # "array" =>
    /\ hasWindow /\ ~fault /\ ~warned
    /\ store["customVendors"].text \in NonArrayTexts
    /\ ret = JSONparse(store["customVendors"].text).value

---------------------------------------------------------------------------
(* Blank lines in the CSV text *)

\* the line is empty or of white space only
IsBlank(row) == Len(row) = 1 /\ Trim(row[1]) = <<>>

NonBlankRows(d) == SelectSeq(RowsOf(d), LAMBDA row : ~IsBlank(row))

\* the header and the rows that are not blank are well formed, and no blank
\* line comes first or last among the rows
WellFormedButBlanks(d) ==
  /\ Len(d.lines[1]) >= 5
  /\ RowsOf(d) # <<>>
  /\ ~IsBlank(RowsOf(d)[1])
  /\ ~IsBlank(RowsOf(d)[Len(RowsOf(d))])
  /\ \A i \in 1..Len(NonBlankRows(d)) :
       /\ Len(NonBlankRows(d)[i]) >= 5
       /\ IsNumeral(NonBlankRows(d)[i][3])
       /\ IsNumeral(NonBlankRows(d)[i][4])

\* C18: only the non-empty lines after the header are records: a blank line
\* between two rows is skipped, so that a text of N non-empty rows with
\* blank lines among them gives N records and no error.
C18_BlankLinesAreSkipped ==
  op = "parseCSVData" /\ WellFormedButBlanks(doc) =>
    /\ raised = "none"
    /\ Len(ret) = Len(NonBlankRows(doc))

\* what the code does with a blank line between rows that are well formed:
\* it is a row of one field, and the call ends in the error of too few
\* columns
BlankLineIsARowTooShort ==
  op = "parseCSVData" /\ WellFormedButBlanks(doc)
    /\ Len(NonBlankRows(doc)) < Len(RowsOf(doc)) =>
      raised = TooFewColumns /\ ret = <<>>

---------------------------------------------------------------------------
(* Further properties of the ladder *)

\* C19: for every plan sequence S and every ladder index i, bucket i of
\* calculateAllConsumptionLevels(S) carries calculateAllPrices(S, ladder[i]);
\* no bucket depends on another, and every bucket has one priced plan for
\* each plan of S.
C19_BucketIsTheRankingAtItsLevel ==
  op = "calculateAllConsumptionLevels" =>
    \A i \in 1..15 :
      /\ i \in DOMAIN ret
      /\ ret[i].calculations = calculateAllPrices(vendors, Fin(100 * i))
      /\ Len(ret[i].calculations) = Len(vendors)

\* three plans were priced over the ladder, and the cheapest plan of the
\* first bucket is not the cheapest of the second
C19_Witness ==
  /\ op = "calculateAllConsumptionLevels"
  /\ Len(vendors) = 3
  /\ NoNaNTotal(ret[1].calculations)
  /\ ret[1].calculations[1].vendor # ret[2].calculations[1].vendor
  /\ ret[1].calculations[1].totalPrice = Fin(25000)
  /\ ret[2].calculations[1].totalPrice = Fin(40000)

\* the sum of the terms each rounded to the cent on its own
SumOfRoundedTerms(i) ==
  Add(RoundTo2(vendors[i].fixedPrice), RoundTo2(Mul(vendors[i].kwhPrice, kwh)))

\* C20: calculatePrice rounds once, the final sum fixedPrice + kwhPrice * kwh:
\* neither term is rounded on its own, so the total is within half a cent of
\* the exact sum and can differ from round2(fixedPrice) + round2(kwhPrice *
\* kwh); the fixedPrice and kwhPrice of the result are the inputs, unrounded.
C20_RoundsTheSumOnce ==
  op = "calculatePrice" =>
    /\ ret.fixedPrice = vendors[1].fixedPrice
    /\ ret.kwhPrice = vendors[1].kwhPrice
    /\ ExactSum(1).k = "fin" => IsHalfUpCent(ret.totalPrice, ExactSum(1))
    /\ ExactSum(1).k # "fin" => ret.totalPrice = ExactSum(1)

\* 0.004 + 0.002 * 1 was priced 0.01, where the terms rounded on their own
\* add up to 0; the fixedPrice of the result is still 0.004
C20_Witness ==
  /\ op = "calculatePrice"
  /\ vendors[1].fixedPrice = Fin(4)
  /\ vendors[1].kwhPrice = Fin(2)
  /\ kwh = Fin(1)
  /\ ret.totalPrice = Fin(10)
  /\ SumOfRoundedTerms(1) = Fin(0)
  /\ ret.fixedPrice = Fin(4)

---------------------------------------------------------------------------
(* Fields after the fifth *)

\* the lines of d, each cut after its fifth field
FirstFive(line) == IF Len(line) > 5 THEN SubSeq(line, 1, 5) ELSE line

WithoutExtraColumns(d) ==
  [d EXCEPT !.lines = [i \in 1..Len(d.lines) |-> FirstFive(d.lines[i])]]

HasExtraColumns(d) == \E i \in 1..Len(d.lines) : Len(d.lines[i]) > 5

\* C21: parseCSVData ignores the fields after the fifth, in the header and
\* in every row: a text with such fields gives the records, or the error,
\* of the text written without them, so they alone never raise an error.
C21_ExtraColumnsAreIgnored ==
  op = "parseCSVData" /\ HasExtraColumns(doc) =>
    LET cut == parseCSVData(TextOf(WithoutExtraColumns(doc)))
    IN /\ ret = cut.ret
       /\ raised = cut.raised

\* a header of six names and a row of six fields gave the record of the
\* first five, after a plain row
C21_Witness ==
  /\ op = "parseCSVData"
  /\ raised = "none"
  /\ Len(doc.lines) = 3
  /\ Len(doc.lines[1]) = 6
  /\ Len(doc.lines[3]) = 6
  /\ doc.lines[3][6] = <<"x">>
  /\ Len(ret) = 2
  /\ ret[2] = Vendor(<<"C">>, <<"P">>, Fin(10000), Fin(500), <<"u">>)

---------------------------------------------------------------------------
(* The header *)

\* the header lines drawn that have five columns or more
HeadersOfFive == {h \in CsvHeaders : Len(h) >= 5}

\* d under the header h
WithHeader(d, h) == [d EXCEPT !.lines = <<h>> \o Tail(d.lines)]

\* C22: parseCSVData never looks at what the header says: over the same
\* rows any two headers of five columns or more give the same result,
\* whatever the names and their order, the fields being taken by position.
C22_HeaderContentIsNotRead ==
  op = "parseCSVData" /\ doc.lines[1] \in HeadersOfFive =>
    \A h \in HeadersOfFive :
      LET other == parseCSVData(TextOf(WithHeader(doc, h)))
      IN /\ ret = other.ret
         /\ raised = other.raised

\* under the header l,k,f,p,v,x the first field of the row still gave the
\* vendor and the fifth the link
C22_Witness ==
  /\ op = "parseCSVData"
  /\ raised = "none"
  /\ doc.lines[1] = <<<<"l">>, <<"k">>, <<"f">>, <<"p">>, <<"v">>, <<"x">>>>
  /\ Len(ret) = 2
  /\ ret[1] = Vendor(<<"A">>, <<"P">>, Fin(5000), Fin(120), <<"u">>)
  /\ ret[2] = Vendor(<<"B">>, <<"Q">>, Fin(-2500), Fin(7000), <<>>)

---------------------------------------------------------------------------
(* Commas between quotes *)

\* the row was written with a comma inside a quoted value: one of its
\* fields opens a double quote that a later field closes
OpensQuote(field) ==
  LET f == Trim(field)
  IN f # <<>> /\ Head(f) = "\"" /\ (Len(f) = 1 \/ f[Len(f)] # "\"")

ClosesQuote(field) ==
  LET f == Trim(field)
  IN f # <<>> /\ f[Len(f)] = "\"" /\ (Len(f) = 1 \/ Head(f) # "\"")

QuotedComma(row) ==
  \E i \in 1..Len(row) : \E j \in (i + 1)..Len(row) :
    OpensQuote(row[i]) /\ ClosesQuote(row[j])

\* row i of d splits into five fields or more with numbers in the third
\* and the fourth
RowParses(d, i) ==
  /\ Len(RowsOf(d)[i]) >= 5
  /\ ~isNaN(parseFloat(Trim(RowsOf(d)[i][3])))
  /\ ~isNaN(parseFloat(Trim(RowsOf(d)[i][4])))

\* C23: parseCSVData raises an error for a row in which a quoted value has
\* a comma in it: the row is rejected, never parsed into a record.
C23_QuotedCommaIsRejected ==
  op = "parseCSVData" /\ doc.lines[1] \in HeadersOfFive =>
    ((\E i \in 1..Len(RowsOf(doc)) : QuotedComma(RowsOf(doc)[i]))
       => raised # "none")

\* C23 as the code has it: a comma between quotes ends a field like any
\* other; the row is rejected only when the fields so cut are fewer than
\* five or leave no number in the third or fourth place, and else gives the
\* record of its first five fields, the quotes kept (read on texts without
\* blank lines).
C23_QuotedCommaSplitsTheField ==
  op = "parseCSVData" /\ doc.lines[1] \in HeadersOfFive
    /\ (\E i \in 1..Len(RowsOf(doc)) : QuotedComma(RowsOf(doc)[i]))
    /\ (\A i \in 1..Len(RowsOf(doc)) : ~IsBlank(RowsOf(doc)[i])) =>
    /\ raised = "none" <=> \A i \in 1..Len(RowsOf(doc)) : RowParses(doc, i)
    /\ raised = "none" =>
         /\ Len(ret) = Len(RowsOf(doc))
         /\ \A i \in 1..Len(RowsOf(doc)) : ret[i] = RowRecord(RowsOf(doc)[i])

\* the row K,P,1,2,"u,w" gave a record whose link is "u with its quote, and
\* nothing was raised
C23_Witness ==
  /\ op = "parseCSVData"
  /\ raised = "none"
  /\ doc.lines[1] \in HeadersOfFive
  /\ Len(RowsOf(doc)) = 2
  /\ QuotedComma(RowsOf(doc)[2])
  /\ ret[2] = Vendor(<<"K">>, <<"P">>, Fin(1000), Fin(2000), <<"\"", "u">>)

---------------------------------------------------------------------------
(* What the pricing calls leave behind.  The calls are given the caller's  *)
(* array and the module's ladder array; each is followed through the       *)
(* reads and writes of the code, and what the two arrays hold after the    *)
(* call is kept next to the value returned.                                *)

\* the caller's array and the ladder after a call, and the value returned
After(vs, ladder, r) == [vendors |-> vs, levels |-> ladder, ret |-> r]

\* calculatePrice reads five fields of the plan and returns an object
\* literal: nothing is written to the plan
calculatePriceCall(vs, ladder, i, q) ==
  After(vs, ladder, calculatePrice(vs[i], q))

\* the plan of a priced plan
Unpriced(r) == Vendor(r.vendor, r.plan, r.fixedPrice, r.kwhPrice, r.link)

\* a ranking that prices the plans in the caller's array and sorts that array
calculateAllPricesInPlace(vs, ladder, q) ==
  LET sorted == Sort(MapPrices(vs, q))
  IN After([i \in 1..Len(sorted) |-> Unpriced(sorted[i])], ladder, sorted)

\* vendors.map(...) builds a new array and sort orders that new array in
\* place: the caller's array is only read
calculateAllPricesCall(vs, ladder, q) ==
  After(vs, ladder, Sort(MapPrices(vs, q)))

\* CONSUMPTION_LEVELS.map(...) reads the ladder and builds a new array, each
\* bucket from a call of calculateAllPrices
calculateAllConsumptionLevelsCall(vs, ladder) ==
  After(vs, ladder,
        [i \in 1..Len(ladder) |->
           [kwh |-> Fin(ladder[i]),
            calculations |-> calculateAllPricesCall(vs, ladder, Fin(ladder[i])).ret]])

---------------------------------------------------------------------------
(* The calls specification: a plan sequence is drawn and the three pricing *)
(* functions are called on it, any number of times in any order            *)

CallQtys == {Fin(100), Fin(200), NaN}

CallCalculatePrice(i, q) ==
  LET after == calculatePriceCall(vendors, levels, i, q)
  IN /\ kwh' = q
     /\ op' = "calculatePrice"
     /\ ret' = after.ret
     /\ vendors' = after.vendors
     /\ levels' = after.levels
     /\ UNCHANGED <<raised, storeVars, csvVars, i18nVars>>

CallCalculateAllPrices(q) ==
  LET after == calculateAllPricesCall(vendors, levels, q)
  IN /\ kwh' = q
     /\ op' = "calculateAllPrices"
     /\ ret' = after.ret
     /\ vendors' = after.vendors
     /\ levels' = after.levels
     /\ UNCHANGED <<raised, storeVars, csvVars, i18nVars>>

CallCalculateAllConsumptionLevels ==
  LET after == calculateAllConsumptionLevelsCall(vendors, levels)
  IN /\ op' = "calculateAllConsumptionLevels"
     /\ ret' = after.ret
     /\ vendors' = after.vendors
     /\ levels' = after.levels
     /\ UNCHANGED <<kwh, raised, storeVars, csvVars, i18nVars>>

NextCalls ==
  \/ \E i \in 1..Len(vendors), q \in CallQtys : CallCalculatePrice(i, q)
  \/ \E q \in CallQtys : CallCalculateAllPrices(q)
  \/ CallCalculateAllConsumptionLevels

SpecCalls == InitLevels /\ [][NextCalls]_vars

\* the priced plans of a returned value carry the fields of plans of vs, and
\* none of them is a plan of vs: the plans of vs have no totalPrice
PricedPlansOf(rs, vs) ==
  \A j \in 1..Len(rs) :
    /\ \E i \in 1..Len(vs) : PricedFrom(rs[j], vs[i])
    /\ DOMAIN rs[j] = {"vendor", "plan", "fixedPrice", "kwhPrice", "totalPrice", "link"}
    /\ \A i \in 1..Len(vs) : rs[j] # vs[i]

ReturnedFrom(o, r, vs) ==
  /\ o = "calculatePrice" => PricedPlansOf(<<r>>, vs)
  /\ o = "calculateAllPrices" => Len(r) = Len(vs) /\ PricedPlansOf(r, vs)
  /\ o = "calculateAllConsumptionLevels" =>
       \A b \in 1..Len(r) :
         Len(r[b].calculations) = Len(vs) /\ PricedPlansOf(r[b].calculations, vs)

\* C24: calculatePrice, calculateAllPrices and calculateAllConsumptionLevels
\* leave their inputs as they were: over any sequence of calls every call
\* keeps the caller's plan sequence (length, order, fields), returns priced
\* plans that are new records with the five fields of the input plans, and
\* keeps the ladder at 100, 200, ..., 1500.
C24_CallsLeaveInputsUnchanged ==
  [][/\ vendors' = vendors
     /\ \A i \in 1..Len(vendors') :
          DOMAIN vendors'[i] = {"vendor", "plan", "fixedPrice", "kwhPrice", "link"}
     /\ levels' = levels
     /\ levels' = [i \in 1..15 |-> 100 * i]
     /\ ReturnedFrom(op', ret', vendors)]_vars

\* a ranking came back in another order than the caller's three plans,
\* which still stand as they were given
C24_Witness ==
  /\ op = "calculateAllPrices"
  /\ Len(vendors) = 3
  /\ vendors[1].vendor = <<"A">>
  /\ vendors[2].vendor = <<"E">>
  /\ vendors[3].vendor = <<"C">>
  /\ kwh = Fin(200)
  /\ ret[1].vendor = <<"A">>
  /\ ret[2].vendor = <<"C">>
  /\ ret[3].vendor = <<"E">>
  /\ levels = CONSUMPTION_LEVELS

---------------------------------------------------------------------------
(* Store failures in the language functions *)

LanguageOps == {"getCurrentLanguage", "getTranslation", "setLanguage"}

\* C25: the language functions do not swallow what the store raises: when
\* getItem raises, getCurrentLanguage and getTranslation end in that error,
\* and when setItem raises, setLanguage ends in it; nothing is logged and
\* nothing else is raised.
C25_StoreFailuresPropagate ==
  op \in LanguageOps =>
    /\ fault => raised = "store"
    /\ raised # "none" => fault /\ raised = "store"
    /\ warned = FALSE

\* a translation ended in the error getItem raised
C25_Witness ==
  /\ op = "getTranslation"
  /\ transKey = "title"
  /\ fault
  /\ raised = "store"
  /\ ret = Undefined

---------------------------------------------------------------------------
(* Ties made by the rounding *)

\* the sum of the plan v at the quantity q, exact and rounded to 2 decimals
ExactOf(v, q) == Add(v.fixedPrice, Mul(v.kwhPrice, q))
RoundedOf(v, q) == RoundTo2(ExactOf(v, q))

\* two plans of vs have different sums that both round to t
TiedByRounding(vs, q, t) ==
  \E i, j \in 1..Len(vs) :
    /\ RoundedOf(vs[i], q) = t
    /\ RoundedOf(vs[j], q) = t
    /\ ExactOf(vs[i], q) # ExactOf(vs[j], q)

\* the plans of s whose sum rounds to t, in their order in s
PlansRoundingTo(s, q, t) ==
  SelectSeq(s, LAMBDA v : RoundedOf(v, q) = t)

\* the plans of the ranking r in their order
PlansOf(r) == [k \in 1..Len(r) |-> Unpriced(r[k])]

\* the plans that the rounding ties stand in the ranking in input order
RoundingTiesKeepOrder ==
  \A i \in 1..Len(vendors) :
    LET t == RoundedOf(vendors[i], kwh)
    IN t.k # "nan" /\ TiedByRounding(vendors, kwh, t) =>
         PlansRoundingTo(PlansOf(ret), kwh, t) = PlansRoundingTo(vendors, kwh, t)

\* C26 (as stated): calculateAllPrices compares the rounded totals only:
\* plans whose sums differ and round to the same value are a tie and keep
\* their input order, for every plan sequence.
C26_RoundingTiesKeepInputOrderAlways ==
  op = "calculateAllPrices" => RoundingTiesKeepOrder

\* C26 (amended): whenever no total is NaN, plans whose sums differ and round
\* to the same value stand in the ranking in their input order, the cheaper
\* after the dearer when the input has them so.
C26_RoundingTiesKeepInputOrderWithoutNaN ==
  op = "calculateAllPrices" /\ NoNaNTotal(ret) => RoundingTiesKeepOrder

\* B, dearer than A before rounding, was given before A and is ranked
\* before A, after the sort moved the dearest plan C to the end
C26_Witness ==
  /\ op = "calculateAllPrices"
  /\ NoNaNTotal(ret)
  /\ Len(vendors) = 3
  /\ vendors[1].vendor = <<"C">>
  /\ vendors[2].vendor = <<"B">>
  /\ vendors[3].vendor = <<"A">>
  /\ kwh = Fin(200)
  /\ Lt(ExactOf(vendors[3], kwh), ExactOf(vendors[2], kwh))
  /\ ret[1].vendor = <<"B">>
  /\ ret[2].vendor = <<"A">>
  /\ ret[3].vendor = <<"C">>
  /\ ret[1].totalPrice = ret[2].totalPrice

---------------------------------------------------------------------------
(* The keys specification: plans are saved and loaded and the language is  *)
(* set and read, in any order, on one store that may hold either key       *)
(* before the first call; each call of the store may raise                 *)

InitKeys ==
  /\ vendors = <<>>
  /\ kwh = Fin(0)
  /\ op = "init"
  /\ ret = <<>>
  /\ raised = "none"
  /\ levels = CONSUMPTION_LEVELS
  /\ \E v \in {Absent} \cup {Held(JSONstringify(<<p>>)) : p \in StorePlans},
        l \in {Absent, Held("el")} :
       store = [customVendors |-> v, language |-> l]
  /\ hasWindow \in BOOLEAN
  /\ fault = FALSE
  /\ warned = FALSE
  /\ saved = NothingSaved
  /\ CsvUnused
  /\ I18nUnused

\* the plan sequences saved: none, one plan, two plans of which one has
\* prices the store does not keep
KeySeqs ==
  { <<>>,
    <<Vendor(<<"A">>, <<"P">>, Fin(5000), Fin(120), <<"u">>)>>,
    <<Vendor(<<"C">>, <<"P">>, NaN, PosInf, <<"u">>),
      Vendor(<<"A">>, <<"P">>, Fin(5000), Fin(120), <<"u">>)>> }

\* the languages set
KeyLanguages == {"", "en", "el"}

NextKeys ==
  \/ \E vs \in KeySeqs, setFails \in BOOLEAN : SaveVendorsToStorage(vs, setFails)
  \/ \E getFails \in BOOLEAN : LoadVendorsFromStorage(getFails)
  \/ \E l \in KeyLanguages, setFails \in BOOLEAN : SetLanguage(l, setFails)
  \/ \E getFails \in BOOLEAN : GetCurrentLanguage(getFails)

SpecKeys == InitKeys /\ [][NextKeys]_vars

\* C27: the keys are kept apart: a save writes the key 'customVendors' only
\* and setLanguage the key 'language' only, a load and getCurrentLanguage
\* write nothing; so in any interleaving a load returns what the last
\* save that reached the store left under its key, and getCurrentLanguage
\* the language of the last setLanguage.
C27_KeysAreKeptApart ==
  [][/\ op' = "saveVendorsToStorage" => store'["language"] = store["language"]
     /\ op' = "setLanguage" => store'["customVendors"] = store["customVendors"]
     /\ op' \in {"loadVendorsFromStorage", "getCurrentLanguage"} => store' = store
     /\ saved'.has => store'["customVendors"] = Held(JSONstringify(saved'.seq))
     /\ op' = "loadVendorsFromStorage" /\ hasWindow /\ ~fault' /\ saved'.has =>
          ret' = JSONparse(JSONstringify(saved'.seq)).value
     /\ lastSet'.has /\ lastSet'.stored => store'["language"] = Held(lastSet'.language)
     /\ op' = "getCurrentLanguage" /\ hasWindow /\ ~fault'
          /\ lastSet'.has /\ lastSet'.stored =>
          ret' = Str(IF lastSet'.language = "" THEN "en" ELSE lastSet'.language)]_vars

\* a load returned the plan saved before the language was set to 'el', on a
\* store that held another plan and no language at first
C27_Witness ==
  /\ op = "loadVendorsFromStorage"
  /\ hasWindow /\ ~fault
  /\ saved = [has |-> TRUE,
              seq |-> <<Vendor(<<"A">>, <<"P">>, Fin(5000), Fin(120), <<"u">>)>>]
  /\ lastSet = [has |-> TRUE, language |-> "el", stored |-> TRUE]
  /\ store["language"] = Held("el")
  /\ ret = JsArray(saved.seq)

---------------------------------------------------------------------------
(* Which error is reported *)

\* the rows of the table t of fields that are at fault
OffendingRows(t) == {i \in 2..Len(t) : ShortIn(t, i) \/ BadNumberIn(t, i)}

\* the smallest number of a non-empty set of numbers
Least(S) == CHOOSE i \in S : \A j \in S : i <= j

\* the error the text must end in: that of its header if it is short, else
\* that of its first row at fault, the count of the fields before the numbers
ErrorDue(t) ==
  IF ShortIn(t, 1) THEN TooFewColumns
  ELSE IF OffendingRows(t) = {} THEN "none"
  ELSE IF ShortIn(t, Least(OffendingRows(t))) THEN TooFewColumns
  ELSE InvalidNumeric

\* C28: the error parseCSVData reports is that of the first row at fault in
\* the order of the text, and in a row the count of the fields comes before
\* the numbers: a row of fewer than five fields reports too few columns even
\* with a bad number in it, and a header of fewer than five columns is
\* reported before any row is looked at.
C28_FirstOffendingRowDecides ==
  op = "parseCSVData" =>
    /\ raised = ErrorDue(FieldsOf(csvText))
    /\ raised # "none" => ret = <<>>

\* after a good row, the row H,P,x,2 of four fields, no number in the third,
\* was reported as too short, a row with an empty price coming after it
C28_Witness ==
  /\ op = "parseCSVData"
  /\ Len(doc.lines) = 4
  /\ Len(doc.lines[1]) = 5
  /\ doc.lines[3] = <<<<"H">>, <<"P">>, <<"x">>, <<"2">>>>
  /\ doc.lines[4] = <<<<"E">>, <<"P">>, <<>>, <<"1">>, <<"u">>>>
  /\ OffendingRows(FieldsOf(csvText)) = {3, 4}
  /\ raised = TooFewColumns

---------------------------------------------------------------------------
(* Texts without rows *)

\* the text is one line of five fields or more
HeaderOnly(text) ==
  /\ Len(LinesOf(text)) = 1
  /\ FieldCount(LinesOf(text)[1]) >= 5

\* the text is empty or made of white space only
BlankText(text) == \A i \in 1..Len(text) : text[i] \in Whitespace

\* C29: a text that is a header line of five columns or more and nothing
\* else gives the empty sequence and no error; an empty text, or one of
\* white space only, raises the error of too few columns, its first line
\* being one empty field.
C29_HeaderOnlyIsEmptyBlankIsAnError ==
  op = "parseCSVData" =>
    /\ HeaderOnly(csvText) => raised = "none" /\ ret = <<>>
    /\ BlankText(csvText) =>
         /\ LinesOf(csvText) = <<<<>>>>
         /\ FieldCount(LinesOf(csvText)[1]) = 1
         /\ raised = TooFewColumns

\* a text of a space and two line feeds raised the error of too few columns
C29_Witness ==
  /\ op = "parseCSVData"
  /\ csvText = <<" ", "\n", "\n">>
  /\ raised = TooFewColumns
  /\ ret = <<>>

\* a header of six names alone, white space around it, gave no records and
\* no error
HeaderOnlyWasParsed ==
  /\ op = "parseCSVData"
  /\ Len(doc.lines) = 1
  /\ Len(doc.lines[1]) = 6
  /\ doc.lead # <<>>
  /\ raised = "none"
  /\ ret = <<>>

---------------------------------------------------------------------------
(* Without a window *)

\* C30: where there is no window object, saveVendorsToStorage writes nothing
\* to the store and loadVendorsFromStorage returns the empty sequence
\* without a read of the store (a store that would raise is not noticed);
\* so a load that follows a save of one plan or more never returns the
\* plans saved.
C30_NoWindowNoStore ==
  [][~hasWindow =>
       /\ store' = store
       /\ op' \in {"saveVendorsToStorage", "loadVendorsFromStorage"} =>
            ~fault' /\ ~warned' /\ raised' = "none"
       /\ op' = "saveVendorsToStorage" => saved' = saved
       /\ op' = "loadVendorsFromStorage" => ret' = JsArray(<<>>)
       /\ (op = "saveVendorsToStorage" /\ op' = "loadVendorsFromStorage"
             /\ vendors # <<>>) => ret' # JsArray(vendors)]_vars

\* without a window, on a store that holds the text of a plan, two plans
\* were saved and the load gave the empty sequence; the store is as it was
C30_Witness ==
  /\ ~hasWindow
  /\ op = "loadVendorsFromStorage"
  /\ Len(vendors) = 2
  /\ saved = NothingSaved
  /\ store["customVendors"] =
       Held(JSONstringify(<<Vendor(<<"A">>, <<"P">>, Fin(5000), Fin(120), <<"u">>)>>))
  /\ ret = JsArray(<<>>)

=============================================================================
